---- MODULE Spec2Model ----
(***************************************************************************)
(* Flapi: remote control of FL Studio over MIDI system-exclusive messages. *)
(*                                                                         *)
(* The module models                                                       *)
(*   - the frame codec of the client (FlapiMsg: to_bytes, the byte         *)
(*     decoder, append) and the receive path built on it                   *)
(*     (FlapiComms.try_receive_message), byte for byte;                    *)
(*   - the request script of the server (OnSysEx, its handlers, the        *)
(*     capture of stdout, FlapiResponse) and the response script, byte for *)
(*     byte, with base64 and the decimal text of exit codes computed;      *)
(*   - the context based client (__comms, __enable) for the version gate;  *)
(*   - the client session code (FlapiBaseClient: hello, goodbye, exec,     *)
(*     version_query, __receive_and_dispatch, assert_response_is_ok) of    *)
(*     two processes against the server.                                   *)
(*                                                                         *)
(* Specifications:                                                         *)
(*   SpecCodec    a frame is encoded and its buffers are reassembled       *)
(*   SpecComms    messages arrive on a response port and are polled        *)
(*   SpecServer   sysex events arrive at the request script                *)
(*   SpecVersion  version_check between any two versions                   *)
(*   SpecContext  enable(), then fl_exec, of the context based client      *)
(*   Spec         two client processes and the server                      *)
(*   SpecDispatch a connected client waits while outside frames arrive     *)
(*   SpecTimeout  the same with the clock of receive_message               *)
(*   SpecHello    hello(timeout) and its passes over the candidate ids     *)
(*   SpecSessions hello, goodbye and exec requests at the request script   *)
(*   SpecEval     fl_exec and fl_eval of the context based client          *)
(*   SpecRespond  sysex events of every origin at the response script      *)
(*   SpecClose    close() and disable() with and without a confirmation    *)
(*   SpecSend     FlapiComms.send_message through FlapiMsg.to_bytes        *)
(*   SpecLate     two calls in a row, the first one timing out             *)
(*   SpecTryInit  try_init called again and again on one context           *)
(*   SpecRehello  a session ends and its id is claimed again               *)
(* All share the variables; each drives its part and leaves the rest as    *)
(* constructed.                                                            *)
(***************************************************************************)
EXTENDS Integers, Sequences, FiniteSets, TLC

(***************************************************************************)
(* Bounds of the model.                                                    *)
(***************************************************************************)
\* Payload bytes per physical message.  The constant lives in flapi._consts;
\* the model uses a small value so that one, two and three chunk payloads
\* are all explored.
MAX_DATA_LEN == 2
\* Longest payload handed to to_bytes.
MaxPayloadLen == 5

(***************************************************************************)
(* Protocol constants (consts.py).                                         *)
(***************************************************************************)
SYSEX_START == 240
SYSEX_END == 247
SYSEX_HEADER == <<125, 70, 108, 97, 112, 105>>

CLIENT == 0
SERVER == 1
INTERNAL == 2
MessageOrigin == {CLIENT, SERVER, INTERNAL}

CLIENT_HELLO == 0
CLIENT_GOODBYE == 1
SERVER_GOODBYE == 2
VERSION_QUERY == 3
EXEC == 4
EVAL == 5
STDOUT == 6
MessageType == {CLIENT_HELLO, CLIENT_GOODBYE, SERVER_GOODBYE, VERSION_QUERY,
                EXEC, EVAL, STDOUT}

OK == 0
ERR == 1
FAIL == 2
MessageStatus == {OK, ERR, FAIL}

\* The version of the code.
VERSION == <<1, 0, 0>>

\* The universal device enquiry, a sysex message that is not a Flapi message.
DEVICE_ENQUIRY_MESSAGE == <<126, 0, 6, 1>>

\* The identity reply a client gives to the enquiry.
DEVICE_ENQUIRY_RESPONSE ==
    <<126, 0, 6, 2, 125, 70, 108, 97, 112, 105>> \o VERSION

\* Python's None, for a value that is otherwise a string.
None == "None"
\* Python's None, for a value that is otherwise a message (a record).
NoMsg == [none |-> TRUE]
\* No call has been made.
NoCall == [none |-> TRUE]

(***************************************************************************)
(* Python helpers.                                                         *)
(***************************************************************************)
Min(a, b) == IF a < b THEN a ELSE b

\* s[lo:] on a zero-based Python sequence.
SliceFrom(s, lo) == SubSeq(s, lo + 1, Len(s))

\* s[lo:hi] with 0 <= lo, 0 <= hi.
Slice(s, lo, hi) == SubSeq(s, lo + 1, Min(hi, Len(s)))

\* s[lo:-1].
SliceToLast(s, lo) == SubSeq(s, lo + 1, Len(s) - 1)

\* s[i], zero-based; only used where the index exists.
At(s, i) == s[i + 1]

\* bytes([flag]) of a bool.
BoolByte(b) == IF b THEN 1 ELSE 0

\* itertools.batched(data, n): consecutive chunks of n items, the last one
\* shorter; no chunk at all for empty data.
Batched(data, n) ==
    [i \in 1..((Len(data) + n - 1) \div n) |->
        SubSeq(data, (i - 1) * n + 1, Min(i * n, Len(data)))]

(***************************************************************************)
(* FlapiMsg.                                                               *)
(***************************************************************************)
\* FlapiMsg(origin, client_id, msg_type, status, additional_data)
FlapiMsgNew(origin, client_id, msg_type, status, additional_data) ==
    [origin |-> origin, client_id |-> client_id, continuation |-> FALSE,
     msg_type |-> msg_type, status_code |-> status,
     additional_data |-> additional_data]

\* FlapiMsg(data): the byte decoder.  The marker is read at [1:7], the fields
\* at [7]..[11], the payload is [12:-1].
FlapiMsgFromBytes(origin_data) ==
    IF Slice(origin_data, 1, 7) # SYSEX_HEADER
    THEN [error |-> "FlapiInvalidMsgError"]
    ELSE IF Len(origin_data) < 8
    THEN [error |-> "IndexError"]
    ELSE IF At(origin_data, 7) \notin MessageOrigin
    THEN [error |-> "ValueError"]
    ELSE IF Len(origin_data) < 12
    THEN [error |-> "IndexError"]
    ELSE IF At(origin_data, 11) \notin MessageStatus
    THEN [error |-> "ValueError"]
    ELSE [error |-> None,
          msg |-> [origin |-> At(origin_data, 7),
                   client_id |-> At(origin_data, 8),
                   continuation |-> At(origin_data, 9) # 0,
                   msg_type |-> At(origin_data, 10),
                   status_code |-> At(origin_data, 11),
                   additional_data |-> SliceToLast(origin_data, 12)]]

\* The continuation byte to_bytes writes into chunk i of n.  The loop walks
\* the chunks in reverse with `first` true on its first pass, which is the
\* last chunk, and writes `first` into the continuation position.
ContinuationByte(i, n) == BoolByte(i = n)

\* FlapiMsg.to_bytes
to_bytes(self) ==
    LET chunks == Batched(self.additional_data, MAX_DATA_LEN)
    IN  [i \in 1..Len(chunks) |->
            SYSEX_HEADER
            \o <<self.origin, self.client_id,
                 ContinuationByte(i, Len(chunks)),
                 self.msg_type, self.status_code>>
            \o chunks[i]]

\* FlapiMsg.append: the error raised, or None with the merged message.
FlapiMsgAppend(self, other) ==
    IF ~self.continuation
    THEN [error |-> "FlapiInvalidMsgError", msg |-> self]
    ELSE IF ~(/\ self.origin = other.origin
              /\ self.client_id = other.client_id
              /\ self.msg_type = other.msg_type
              /\ self.status_code = other.status_code)
    THEN [error |-> "AssertionError", msg |-> self]
    ELSE [error |-> None,
          msg |-> [self EXCEPT
                     !.continuation = other.continuation,
                     !.additional_data = self.additional_data
                                         \o other.additional_data]]

\* MidoMsg("sysex", data=m).bytes(): Mido adds the leading 0xF0 and the
\* trailing 0xF7 that to_bytes leaves out.
MidoSysex(data) == <<SYSEX_START>> \o data \o <<SYSEX_END>>

\* send_msg(SYSEX_HEADER + bytes([CLIENT, client_id, type]) + payload)
ClientRequest(client_id, msg_type, payload) ==
    MidoSysex(SYSEX_HEADER \o <<CLIENT, client_id, msg_type>> \o payload)

(***************************************************************************)
(* Conversions of the payloads: base64, decimal text, pickle.               *)
(***************************************************************************)
\* The base64 alphabet: the character of a six-bit value.
B64Char(v) ==
    IF v < 26 THEN 65 + v
    ELSE IF v < 52 THEN 97 + (v - 26)
    ELSE IF v < 62 THEN 48 + (v - 52)
    ELSE IF v = 62 THEN 43
    ELSE 47

B64Alphabet == { B64Char(v) : v \in 0..63 }

\* The six-bit value of a character of the alphabet.
B64Val(c) == CHOOSE v \in 0..63 : B64Char(v) = c

B64Pad == 61

RECURSIVE b64encode(_)
\* base64.b64encode: three bytes become four characters, a final group of
\* one or two bytes is padded with "=".
b64encode(data) ==
    IF Len(data) = 0 THEN <<>>
    ELSE IF Len(data) = 1
    THEN <<B64Char(data[1] \div 4), B64Char((data[1] % 4) * 16),
           B64Pad, B64Pad>>
    ELSE IF Len(data) = 2
    THEN <<B64Char(data[1] \div 4),
           B64Char(((data[1] % 4) * 16) + (data[2] \div 16)),
           B64Char((data[2] % 16) * 4), B64Pad>>
    ELSE <<B64Char(data[1] \div 4),
           B64Char(((data[1] % 4) * 16) + (data[2] \div 16)),
           B64Char(((data[2] % 16) * 4) + (data[3] \div 64)),
           B64Char(data[3] % 64)>>
         \o b64encode(SubSeq(data, 4, Len(data)))

RECURSIVE B64Groups(_)
\* The bytes of a string of complete four-character groups.
B64Groups(chars) ==
    IF Len(chars) = 0 THEN <<>>
    ELSE LET a == B64Val(chars[1])
             b == B64Val(chars[2])
         IN  IF chars[3] = B64Pad
             THEN <<(a * 4) + (b \div 16)>>
             ELSE IF chars[4] = B64Pad
             THEN <<(a * 4) + (b \div 16),
                    ((b % 16) * 16) + (B64Val(chars[3]) \div 4)>>
             ELSE <<(a * 4) + (b \div 16),
                    ((b % 16) * 16) + (B64Val(chars[3]) \div 4),
                    ((B64Val(chars[3]) % 4) * 64) + B64Val(chars[4])>>
                  \o B64Groups(SubSeq(chars, 5, Len(chars)))

\* base64.b64decode (not validating): characters outside the alphabet are
\* dropped, an incomplete or wrongly padded group is a binascii.Error.
b64decode(data) ==
    LET chars == SelectSeq(data,
                     LAMBDA c : c \in B64Alphabet \cup {B64Pad})
        n == Len(chars)
        padOk == \A i \in 1..n :
                    chars[i] = B64Pad =>
                        /\ i >= n - 1
                        /\ i % 4 \in {0, 3}
                        /\ (i = n - 1 => chars[n] = B64Pad)
    IN  IF n % 4 # 0 \/ ~padOk
        THEN [error |-> "binascii.Error", bytes |-> <<>>]
        ELSE [error |-> None, bytes |-> B64Groups(chars)]

DigitBytes == 48..57

RECURSIVE DigitsValue(_)
DigitsValue(ds) ==
    IF Len(ds) = 0 THEN 0
    ELSE (DigitsValue(SubSeq(ds, 1, Len(ds) - 1)) * 10) + (ds[Len(ds)] - 48)

\* int(text.decode()): an optional sign and at least one decimal digit,
\* leading zeros allowed.
ParseInt(text) ==
    LET signed == Len(text) > 0 /\ text[1] \in {43, 45}
        ds == IF signed THEN Tail(text) ELSE text
    IN  IF \E i \in 1..Len(text) : text[i] >= 128
        THEN [error |-> "UnicodeDecodeError", value |-> 0]
        ELSE IF Len(ds) = 0 \/ \E i \in 1..Len(ds) : ds[i] \notin DigitBytes
        THEN [error |-> "ValueError", value |-> 0]
        ELSE [error |-> None,
              value |-> IF signed /\ text[1] = 45
                        THEN 0 - DigitsValue(ds) ELSE DigitsValue(ds)]

RECURSIVE FormatNat(_)
FormatNat(n) ==
    IF n < 10 THEN <<48 + n>> ELSE FormatNat(n \div 10) \o <<48 + (n % 10)>>

\* str(n).encode()
FormatInt(n) == IF n < 0 THEN <<45>> \o FormatNat(0 - n) ELSE FormatNat(n)

\* pickle.dumps of a small non-negative integer (protocol 4: PROTO 4,
\* BININT1 n, STOP).
PickleInt(n) == <<128, 4, 75, n, 46>>

\* pickle.dumps of an exception object, abstracted to a tag that names the
\* exception class.
PickleException(name) ==
    <<128, 4, 99,
      CASE name = "NameError" -> 1
        [] name = "KeyError" -> 2
        [] name = "SyntaxError" -> 3
        [] OTHER -> 0,
      46>>

\* encode_python_object
encode_python_object(pickled) == b64encode(pickled)

(***************************************************************************)
(* The host's Python: dictionaries, and exec / eval for the statements the *)
(* model sends.  A scope is shown by its user bindings (name -> value); it *)
(* also carries the module globals it was copied from, among them the name *)
(* connected_clients, bound to the server's one session table.             *)
(***************************************************************************)
EmptyDict == [k \in {} |-> 0]
DictPut(d, k, v) == [x \in DOMAIN d \cup {k} |-> IF x = k THEN v ELSE d[x]]
DictPop(d, k) == [x \in DOMAIN d \ {k} |-> d[x]]

\* The variable names of the statements: "x".
NameBytes == {120}

\* "x=1": NAME "=" DIGIT
StmtAssign(src) ==
    /\ Len(src) = 3
    /\ src[1] \in NameBytes
    /\ src[2] = 61
    /\ src[3] \in DigitBytes

\* "print(x)"
StmtPrint(src) ==
    /\ Len(src) = 8
    /\ SubSeq(src, 1, 6) = <<112, 114, 105, 110, 116, 40>>
    /\ src[7] \in NameBytes
    /\ src[8] = 41

\* "connected_clients[2]['x']=1"
StmtSubscript(src) ==
    /\ Len(src) = 27
    /\ SubSeq(src, 1, 18) = <<99, 111, 110, 110, 101, 99, 116, 101, 100, 95,
                              99, 108, 105, 101, 110, 116, 115, 91>>
    /\ src[19] \in DigitBytes
    /\ SubSeq(src, 20, 22) = <<93, 91, 39>>
    /\ src[23] \in NameBytes
    /\ SubSeq(src, 24, 26) = <<39, 93, 61>>
    /\ src[27] \in DigitBytes

\* "import m": the statement setup_server sends, with one module.
StmtImport(src) ==
    /\ Len(src) = 8
    /\ SubSeq(src, 1, 7) = <<105, 109, 112, 111, 114, 116, 32>>
    /\ src[8] = 109

\* "exit(7)": a call of the scope's exit with a one digit code.
StmtExit(src) ==
    /\ Len(src) = 7
    /\ SubSeq(src, 1, 5) = <<101, 120, 105, 116, 40>>
    /\ src[6] \in DigitBytes
    /\ src[7] = 41

\* exec(statement, connected_clients.setdefault(client_id, {})): a client
\* without a session gets a scope on its first statement.
python_exec_setdefault(statement, client_id, clients) ==
    LET scoped == IF client_id \in DOMAIN clients THEN clients
                  ELSE DictPut(clients, client_id, EmptyDict)
    IN  IF StmtAssign(statement)
        THEN [error |-> None,
              clients |-> DictPut(scoped, client_id,
                              DictPut(scoped[client_id], statement[1],
                                      statement[3] - 48)),
              out |-> <<>>]
        ELSE IF StmtPrint(statement)
        THEN IF statement[7] \in DOMAIN scoped[client_id]
             THEN [error |-> None, clients |-> scoped,
                   out |-> FormatInt(scoped[client_id][statement[7]])
                           \o <<10>>]
             ELSE [error |-> "NameError", clients |-> scoped, out |-> <<>>]
        ELSE IF StmtSubscript(statement)
        THEN IF statement[19] - 48 \in DOMAIN scoped
             THEN [error |-> None,
                   clients |-> DictPut(scoped, statement[19] - 48,
                                   DictPut(scoped[statement[19] - 48],
                                           statement[23],
                                           statement[27] - 48)),
                   out |-> <<>>]
             ELSE [error |-> "KeyError", clients |-> scoped, out |-> <<>>]
        ELSE IF StmtImport(statement)
        THEN [error |-> None,
              clients |-> DictPut(scoped, client_id,
                              DictPut(scoped[client_id], statement[8], 0)),
              out |-> <<>>]
        ELSE IF StmtExit(statement)
        THEN [error |-> None, clients |-> scoped, out |-> <<>>]
        ELSE [error |-> "SyntaxError", clients |-> scoped, out |-> <<>>]

\* exec(statement, scope) where scope is clients[client_id]: the exception
\* raised (or None), the session table afterwards and the text printed.
python_exec(statement, client_id, clients) ==
    IF client_id \notin DOMAIN clients
    THEN [error |-> "KeyError", clients |-> clients, out |-> <<>>]
    ELSE IF StmtAssign(statement)
    THEN [error |-> None,
          clients |-> DictPut(clients, client_id,
                          DictPut(clients[client_id], statement[1],
                                  statement[3] - 48)),
          out |-> <<>>]
    ELSE IF StmtPrint(statement)
    THEN IF statement[7] \in DOMAIN clients[client_id]
         THEN [error |-> None, clients |-> clients,
               out |-> FormatInt(clients[client_id][statement[7]])
                       \o <<10>>]
         ELSE [error |-> "NameError", clients |-> clients, out |-> <<>>]
    ELSE IF StmtSubscript(statement)
    THEN IF statement[19] - 48 \in DOMAIN clients
         THEN [error |-> None,
               clients |-> DictPut(clients, statement[19] - 48,
                               DictPut(clients[statement[19] - 48],
                                       statement[23], statement[27] - 48)),
               out |-> <<>>]
         ELSE [error |-> "KeyError", clients |-> clients, out |-> <<>>]
    ELSE IF StmtImport(statement)
    THEN [error |-> None,
          clients |-> DictPut(clients, client_id,
                          DictPut(clients[client_id], statement[8], 0)),
          out |-> <<>>]
    ELSE IF StmtExit(statement)
    THEN \* _Exit.__call__ sends a frame (see Exit_call) and returns None
         [error |-> None, clients |-> clients, out |-> <<>>]
    ELSE [error |-> "SyntaxError", clients |-> clients, out |-> <<>>]

\* eval(expression, scope): a name or a digit.
python_eval(expression, client_id, clients) ==
    IF client_id \notin DOMAIN clients
    THEN [error |-> "KeyError", value |-> 0]
    ELSE IF Len(expression) = 1 /\ expression[1] \in NameBytes
    THEN IF expression[1] \in DOMAIN clients[client_id]
         THEN [error |-> None, value |-> clients[client_id][expression[1]]]
         ELSE [error |-> "NameError", value |-> 0]
    ELSE IF Len(expression) = 1 /\ expression[1] \in DigitBytes
    THEN [error |-> None, value |-> expression[1] - 48]
    ELSE [error |-> "SyntaxError", value |-> 0]

(***************************************************************************)
(* FlapiResponse: the frames the request script builds.                    *)
(***************************************************************************)
ResponseBytes(client_id, msg_type, status, payload) ==
    <<SYSEX_START>> \o SYSEX_HEADER
    \o <<INTERNAL, client_id, msg_type, status>>
    \o payload \o <<SYSEX_END>>

res_client_hello(client_id) ==
    ResponseBytes(client_id, CLIENT_HELLO, OK, <<>>)

res_client_goodbye(client_id, exit_code) ==
    ResponseBytes(client_id, CLIENT_GOODBYE, OK,
                  b64encode(FormatInt(exit_code)))

res_version_query(client_id, version_info) ==
    ResponseBytes(client_id, VERSION_QUERY, OK, version_info)

res_exec(client_id, status, exc_info) ==
    ResponseBytes(client_id, EXEC, status,
                  IF status # OK
                  THEN encode_python_object(PickleException(exc_info))
                  ELSE <<>>)

res_eval(client_id, status, pickled) ==
    ResponseBytes(client_id, EVAL, status, encode_python_object(pickled))

res_stdout(client_id, content) ==
    ResponseBytes(client_id, STDOUT, OK, b64encode(content))

(***************************************************************************)
(* State.                                                                  *)
(***************************************************************************)
VARIABLES
    \* -- frame codec -------------------------------------------------------
    frame,          \* the FlapiMsg handed to to_bytes, or NoMsg
    msgs,           \* what to_bytes returned for it
    wire,           \* the sysex messages of msgs not yet decoded
    pending,        \* the message being reassembled, or NoMsg
    assembled,      \* the complete messages reassembly has produced
    codecErr,       \* the exception that ended decoding, or None
    \* -- FlapiComms -------------------------------------------------------
    res_port,       \* messages waiting on the response port (raw bytes)
    incoming_data,  \* FlapiComms.__incoming_data, or NoMsg
    returned,       \* what the last try_receive_message returned
    commsErr,       \* the exception the last try_receive_message raised
    lastCall,       \* __incoming_data and the decoded fragment of that call
    received,       \* messages delivered to the response port so far
    \* -- request script ---------------------------------------------------
    connected_clients,  \* client id -> scope
    dispatched,     \* frames dispatched while handling the last event
    serverErr,      \* the exception that escaped the last OnSysEx, or None
    lastEvent,      \* the sysex bytes of the last event
    before,         \* connected_clients when the last event arrived
    solo,           \* client id -> the scope its own requests alone produce
    server_version, \* consts.VERSION of the installed server scripts
    capout,         \* the Capout object: enabled, target
    sys_stdout,     \* sys.stdout: "real_stdout" or "fake_stdout"
    capout_during,  \* capout and sys.stdout as the last handler ran, or NoCall
    \* -- ports ------------------------------------------------------------
    req_port,       \* requests sent and not yet seen by the request script
    \* -- client, context based (__comms, __enable) ------------------------
    client_version, \* consts.VERSION of the installed client
    ctx_client_id,  \* get_context().client_id
    ctx_res_port,   \* messages waiting on the context's response port
    vcState,        \* version_check: "idle", "waiting" or "done"
    vcRaised,       \* the exception version_check raised, or None
    ctx_sent,       \* the requests the client has sent, oldest first
    ctx_log,        \* what the client did with each message it received
    ctx_served,     \* the frames passed on to the client, with their request
    ctx_execs,      \* calls of fl_exec so far
    execRaised,     \* the exception the last fl_exec raised, or None
    ctx_value,      \* what the last fl_eval returned, or NoCall
    \* -- clients, FlapiBaseClient, one per process -------------------------
    bc_client_id,   \* __client_id, or NoId
    bc_pc,          \* "ready", inside "hello" or "goodbye", or "exited"
    bc_tried,       \* the candidate ids the running hello has tried
    bc_last,        \* the operation called last: "none", "hello", "goodbye"
    bc_raised,      \* the exception that operation raised, or None
    bc_res_port,    \* messages waiting on the process's response port
    bc_ops,         \* operations called so far, by all processes
    bc_detail,      \* the argument of that exception: exit code or text
    bc_stdout,      \* the texts handed to stdout_callback, oldest first
    bc_seen,        \* the message the dispatcher handled last in the
                    \* running operation and what it did, or NoCall
    bc_timer,       \* ticks since the running receive_message began
    bc_waited,      \* ticks since the running operation began to wait
    bc_arrived,     \* messages put on the response ports from outside
    bc_timeout,     \* the timeout given to the running hello, in ticks
    bc_elapsed,     \* ticks that hello has spent in attempts that timed out
    bc_passes       \* the candidates hello has tried, pass by pass

codecVars == <<frame, msgs, wire, pending, assembled, codecErr>>
commsVars == <<res_port, incoming_data, returned, commsErr, lastCall,
               received>>

serverVars == <<connected_clients, dispatched, serverErr, lastEvent,
                before, solo, server_version, capout, sys_stdout,
                capout_during>>
ctxVars == <<client_version, ctx_client_id, ctx_res_port, vcState, vcRaised,
             ctx_sent, ctx_log, ctx_served, ctx_execs, execRaised,
             ctx_value>>

bcVars == <<bc_client_id, bc_pc, bc_tried, bc_last, bc_raised, bc_res_port,
            bc_ops, bc_detail, bc_stdout, bc_seen, bc_timer, bc_waited,
            bc_arrived, bc_timeout, bc_elapsed, bc_passes>>

\* What hello() keeps of its passes over the candidates.
helloVars == <<bc_timeout, bc_elapsed, bc_passes>>

vars == <<codecVars, commsVars, serverVars, req_port, ctxVars, bcVars>>

(***************************************************************************)
(* The request script (device_flapi_receive): handlers and their table.    *)
(* A handler yields the session table afterwards, the frames it added to   *)
(* the response, the text it printed and the exception it let escape.      *)
(***************************************************************************)
\* make_client_globals that hands out a scope in which x is still bound,
\* as a scope kept from an earlier session would be.
make_client_globals_kept(client_id) == [n \in {120} |-> 1]

\* make_client_globals: a copy of the module globals plus "exit"; no user
\* binding yet.
make_client_globals(client_id) == EmptyDict

\* client_hello without the in-use test: every hello is answered and gets a
\* new scope.
client_hello_always(client_id, data, clients) ==
    [clients |-> DictPut(clients, client_id,
                         make_client_globals(client_id)),
     messages |-> <<res_client_hello(client_id)>>,
     out |-> <<>>, error |-> None]

client_hello(client_id, data, clients) ==
    IF client_id \in DOMAIN clients
    THEN [clients |-> clients, messages |-> <<>>, out |-> <<>>,
          error |-> None]
    ELSE [clients |-> DictPut(clients, client_id,
                              make_client_globals(client_id)),
          messages |-> <<res_client_hello(client_id)>>,
          out |-> <<>>, error |-> None]

\* client_goodbye that drops every session instead of the sender's.
client_goodbye_all(client_id, data, clients) ==
    LET decoded == b64decode(data)
        code == ParseInt(decoded.bytes)
    IN  IF decoded.error # None \/ code.error # None
           \/ client_id \notin DOMAIN clients
        THEN [clients |-> clients, messages |-> <<>>, out |-> <<>>,
              error |-> "Exception"]
        ELSE [clients |-> EmptyDict,
              messages |-> <<res_client_goodbye(client_id, code.value)>>,
              out |-> <<>>, error |-> None]

client_goodbye(client_id, data, clients) ==
    LET decoded == b64decode(data)
        code == ParseInt(decoded.bytes)
    IN  IF decoded.error # None
        THEN [clients |-> clients, messages |-> <<>>, out |-> <<>>,
              error |-> decoded.error]
        ELSE IF code.error # None
        THEN [clients |-> clients, messages |-> <<>>, out |-> <<>>,
              error |-> code.error]
        ELSE IF client_id \notin DOMAIN clients
        THEN [clients |-> clients, messages |-> <<>>, out |-> <<>>,
              error |-> "KeyError"]
        ELSE [clients |-> DictPop(clients, client_id),
              messages |-> <<res_client_goodbye(client_id, code.value)>>,
              out |-> <<>>, error |-> None]

version_query(client_id, data, clients) ==
    [clients |-> clients,
     messages |-> <<res_version_query(client_id, server_version)>>,
     out |-> <<>>, error |-> None]

fl_exec(client_id, data, clients) ==
    LET statement == b64decode(data)
        run == python_exec(statement.bytes, client_id, clients)
    IN  IF statement.error # None
        THEN [clients |-> clients, messages |-> <<>>, out |-> <<>>,
              error |-> statement.error]
        ELSE IF run.error # None
        THEN [clients |-> run.clients,
              messages |-> <<res_exec(client_id, ERR, run.error)>>,
              out |-> run.out, error |-> None]
        ELSE [clients |-> run.clients,
              messages |-> <<res_exec(client_id, OK, None)>>,
              out |-> run.out, error |-> None]

fl_eval(client_id, data, clients) ==
    LET expression == b64decode(data)
        run == python_eval(expression.bytes, client_id, clients)
    IN  IF expression.error # None
        THEN [clients |-> clients, messages |-> <<>>, out |-> <<>>,
              error |-> expression.error]
        ELSE IF run.error # None
        THEN [clients |-> clients,
              messages |-> <<res_eval(client_id, ERR,
                                      PickleException(run.error))>>,
              out |-> <<>>, error |-> None]
        ELSE [clients |-> clients,
              messages |-> <<res_eval(client_id, OK,
                                      PickleInt(run.value))>>,
              out |-> <<>>, error |-> None]

\* _Exit.__call__(code), the "exit" of the scope of client target:
\* FlapiResponse(target).client_goodbye(code).send(), at once.
Exit_call(target, code, clients) ==
    [clients |-> clients,
     sent |-> <<res_client_goodbye(target, code)>>]

\* What the calls of exit made while a handler runs send and leave: only an
\* EXEC of "exit(n)" in a live scope makes one.
ExitCalls(message_type, client_id, data, clients) ==
    LET statement == b64decode(data)
    IN  IF message_type = EXEC /\ statement.error = None
           /\ StmtExit(statement.bytes)
           /\ client_id \in DOMAIN clients
        THEN Exit_call(client_id, statement.bytes[6] - 48, clients)
        ELSE [clients |-> clients, sent |-> <<>>]

\* The keys of message_handlers.
HandledTypes == {CLIENT_HELLO, CLIENT_GOODBYE, VERSION_QUERY, EXEC, EVAL}

\* message_handlers.get(message_type)(res, data)
message_handlers(message_type, client_id, data, clients) ==
    CASE message_type = CLIENT_HELLO -> client_hello(client_id, data, clients)
      [] message_type = CLIENT_GOODBYE ->
            client_goodbye(client_id, data, clients)
      [] message_type = VERSION_QUERY ->
            version_query(client_id, data, clients)
      [] message_type = EXEC -> fl_exec(client_id, data, clients)
      [] message_type = EVAL -> fl_eval(client_id, data, clients)

(***************************************************************************)
(* FlapiComms: the receive path of the client.                             *)
(***************************************************************************)
\* The value try_receive_message hands back: None, a FlapiMsg or the bytes
\* of a message that is not a Flapi message.
RetNone == [kind |-> "None", msg |-> NoMsg, bytes |-> <<>>]
RetMsg(m) == [kind |-> "FlapiMsg", msg |-> m, bytes |-> <<>>]
RetBytes(b) == [kind |-> "bytes", msg |-> NoMsg, bytes |-> b]

CommsInit ==
    /\ res_port = <<>>
    /\ incoming_data = NoMsg
    /\ returned = RetNone
    /\ commsErr = None
    /\ lastCall = NoCall
    /\ received = 0

\* A message whose continuation byte is never found clear.
MessageFinished_never(msg) == FALSE

\* try_receive_message, its last test: the continuation byte of the message
\* in progress is not set, the message is finished.
MessageFinished(msg) == ~msg.continuation

\* try_receive_message that gives up the message in progress when it hands
\* back a message that is no Flapi message.
try_receive_message_reset ==
    IF res_port = <<>>
    THEN /\ returned' = RetNone
         /\ commsErr' = None
         /\ lastCall' = NoCall
         /\ UNCHANGED <<res_port, incoming_data, received>>
    ELSE LET mido_msg == Head(res_port)
             dec == FlapiMsgFromBytes(SliceToLast(mido_msg, 1))
             app == IF incoming_data # NoMsg
                    THEN FlapiMsgAppend(incoming_data, dec.msg)
                    ELSE [error |-> None, msg |-> dec.msg]
         IN  /\ res_port' = Tail(res_port)
             /\ UNCHANGED received
             /\ IF dec.error = "FlapiInvalidMsgError"
                THEN /\ returned' = RetBytes(mido_msg)
                     /\ commsErr' = None
                     /\ lastCall' = NoCall
                     /\ incoming_data' = NoMsg
                ELSE IF dec.error # None
                THEN /\ returned' = RetNone
                     /\ commsErr' = dec.error
                     /\ lastCall' = NoCall
                     /\ UNCHANGED incoming_data
                ELSE /\ lastCall' = [before |-> incoming_data,
                                     fragment |-> dec.msg]
                     /\ IF app.error # None
                        THEN /\ returned' = RetNone
                             /\ commsErr' = app.error
                             /\ UNCHANGED incoming_data
                        ELSE IF ~MessageFinished(app.msg)
                        THEN /\ returned' = RetNone
                             /\ commsErr' = None
                             /\ incoming_data' = app.msg
                        ELSE /\ returned' = RetMsg(app.msg)
                             /\ commsErr' = None
                             /\ incoming_data' = NoMsg

\* FlapiComms.try_receive_message.  The first and the last byte of the
\* received message are dropped before the decoder sees it.
try_receive_message ==
    IF res_port = <<>>
    THEN /\ returned' = RetNone
         /\ commsErr' = None
         /\ lastCall' = NoCall
         /\ UNCHANGED <<res_port, incoming_data, received>>
    ELSE LET mido_msg == Head(res_port)
             dec == FlapiMsgFromBytes(SliceToLast(mido_msg, 1))
             app == IF incoming_data # NoMsg
                    THEN FlapiMsgAppend(incoming_data, dec.msg)
                    ELSE [error |-> None, msg |-> dec.msg]
         IN  /\ res_port' = Tail(res_port)
             /\ UNCHANGED received
             /\ IF dec.error = "FlapiInvalidMsgError"
                THEN /\ returned' = RetBytes(mido_msg)
                     /\ commsErr' = None
                     /\ lastCall' = NoCall
                     /\ UNCHANGED incoming_data
                ELSE IF dec.error # None
                THEN /\ returned' = RetNone
                     /\ commsErr' = dec.error
                     /\ lastCall' = NoCall
                     /\ UNCHANGED incoming_data
                ELSE /\ lastCall' = [before |-> incoming_data,
                                     fragment |-> dec.msg]
                     /\ IF app.error # None
                        THEN /\ returned' = RetNone
                             /\ commsErr' = app.error
                             /\ UNCHANGED incoming_data
                        ELSE IF ~MessageFinished(app.msg)
                        THEN /\ returned' = RetNone
                             /\ commsErr' = None
                             /\ incoming_data' = app.msg
                        ELSE /\ returned' = RetMsg(app.msg)
                             /\ commsErr' = None
                             /\ incoming_data' = NoMsg

(***************************************************************************)
(* The request script: one sysex event.                                    *)
(***************************************************************************)
\* Capout.__init__, and sys.stdout as the interpreter starts.
CapoutInit ==
    /\ capout = [enabled |-> FALSE, target |-> 0]
    /\ sys_stdout = "real_stdout"
    /\ capout_during = NoCall

\* Capout with sys.stdout: c.self is the object, c.stdout is sys.stdout.
\* Capout.__call__
Capout_call(c, target) == [c EXCEPT !.self.target = target]

\* Capout.enable
Capout_enable(c) ==
    [c EXCEPT !.self.enabled = TRUE, !.stdout = "fake_stdout"]

\* Capout.disable
Capout_disable(c) ==
    [c EXCEPT !.self.enabled = FALSE, !.stdout = "real_stdout"]

\* Capout.__enter__
Capout_enter(c) == Capout_enable(c)

\* Capout.flush that drops the captured text.
Capout_flush_lost(c, text) == <<>>

\* Capout.flush: the frames send_stdout sends for the captured text.
Capout_flush(c, text) ==
    IF c.self.enabled THEN <<res_stdout(c.self.target, text)>> ELSE <<>>

\* Capout.__exit__ that leaves the capture enabled.
Capout_exit_no_disable(c) == [c EXCEPT !.self.target = 0]

\* Capout.__exit__, after the flush: disable, and the target is reset.
Capout_exit(c) == [Capout_disable(c) EXCEPT !.self.target = 0]

ServerInit ==
    /\ CapoutInit
    /\ connected_clients = EmptyDict
    /\ dispatched = <<>>
    /\ serverErr = None
    /\ lastEvent = <<>>
    /\ before = EmptyDict
    /\ solo = EmptyDict
    /\ server_version = VERSION

\* Fields of a sysex event as OnSysEx reads them.
EventHeader(sysex) == Slice(sysex, 1, Len(SYSEX_HEADER) + 1)
EventData(sysex) == SliceToLast(sysex, Len(SYSEX_HEADER) + 1)
EventOrigin(sysex) == At(EventData(sysex), 0)
EventClientId(sysex) == At(EventData(sysex), 1)
EventType(sysex) == At(EventData(sysex), 2)
EventPayload(sysex) == SliceFrom(EventData(sysex), 3)

\* The event reaches a handler.
EventHandled(sysex) ==
    /\ EventHeader(sysex) = SYSEX_HEADER
    /\ Len(EventData(sysex)) >= 3
    /\ EventType(sysex) \in HandledTypes
    /\ EventOrigin(sysex) = CLIENT

\* What a client's own request does to the scope it would have had alone.
SoloAfter(sysex, clients) ==
    LET c == EventClientId(sysex)
        statement == b64decode(EventPayload(sysex))
        alone == DictPut(EmptyDict, c, solo[c])
    IN  [k \in DOMAIN clients |->
            IF k \notin DOMAIN connected_clients
            THEN make_client_globals(k)
            ELSE IF k = c /\ EventType(sysex) = EXEC
                    /\ statement.error = None
            THEN python_exec(statement.bytes, c, alone).clients[c]
            ELSE solo[k]]

\* OnSysEx of the request script.  The handler runs inside
\* `with capout(client_id)`: leaving the block flushes the captured text as
\* a STDOUT frame to that client, whatever the handler did; the response is
\* sent afterwards unless the handler raised.
OnSysEx(sysex) ==
    /\ lastEvent' = sysex
    /\ before' = connected_clients
    /\ IF EventHeader(sysex) # SYSEX_HEADER
       THEN /\ dispatched' = <<>>
            /\ serverErr' = None
            /\ UNCHANGED <<connected_clients, solo, capout, sys_stdout>>
            /\ capout_during' = NoCall
       ELSE IF Len(EventData(sysex)) < 3
       THEN /\ dispatched' = <<>>
            /\ serverErr' = "IndexError"
            /\ UNCHANGED <<connected_clients, solo, capout, sys_stdout>>
            /\ capout_during' = NoCall
       ELSE IF EventType(sysex) \notin MessageType
       THEN /\ dispatched' = <<>>
            /\ serverErr' = "ValueError"
            /\ UNCHANGED <<connected_clients, solo, capout, sys_stdout>>
            /\ capout_during' = NoCall
       ELSE IF EventOrigin(sysex) # CLIENT
       THEN /\ dispatched' = <<>>
            /\ serverErr' = None
            /\ UNCHANGED <<connected_clients, solo, capout, sys_stdout>>
            /\ capout_during' = NoCall
       ELSE IF EventType(sysex) \notin HandledTypes
       THEN \* res.fail(...) is returned, never sent
            /\ dispatched' = <<>>
            /\ serverErr' = None
            /\ UNCHANGED <<connected_clients, solo, capout, sys_stdout>>
            /\ capout_during' = NoCall
       ELSE LET h == message_handlers(EventType(sysex),
                        EventClientId(sysex), EventPayload(sysex),
                        connected_clients)
                \* with capout(client_id):
                during == Capout_enter(
                              Capout_call([self |-> capout,
                                           stdout |-> sys_stdout],
                                          EventClientId(sysex)))
                exits == ExitCalls(EventType(sysex), EventClientId(sysex),
                                   EventPayload(sysex), h.clients)
            IN  /\ connected_clients' = exits.clients
                /\ capout_during' = during
                /\ dispatched' =
                       exits.sent
                       \o Capout_flush(during, h.out)
                       \o (IF h.error = None THEN h.messages ELSE <<>>)
                /\ capout' = Capout_exit(during).self
                /\ sys_stdout' = Capout_exit(during).stdout
                /\ serverErr' = h.error
                /\ solo' = SoloAfter(sysex, exits.clients)
    /\ UNCHANGED server_version

(***************************************************************************)
(* The response script (device_flapi_respond): frames of internal origin   *)
(* are passed on to the clients with the origin rewritten.                 *)
(***************************************************************************)
\* OnSysEx of the response script: what it writes to the MIDI output.
RespondOnSysEx_any_origin(sysex) ==
    LET header == Slice(sysex, 1, Len(SYSEX_HEADER) + 1)
        sysex_data == SliceFrom(sysex, Len(SYSEX_HEADER) + 1)
    IN  IF header # SYSEX_HEADER THEN <<>>
        ELSE << <<SYSEX_START>> \o SYSEX_HEADER \o <<SERVER>>
                \o SliceFrom(sysex_data, 1) >>

RespondOnSysEx(sysex) ==
    LET header == Slice(sysex, 1, Len(SYSEX_HEADER) + 1)
        sysex_data == SliceFrom(sysex, Len(SYSEX_HEADER) + 1)
    IN  IF header # SYSEX_HEADER THEN <<>>
        ELSE IF At(sysex_data, 0) # INTERNAL THEN <<>>
        ELSE << <<SYSEX_START>> \o SYSEX_HEADER \o <<SERVER>>
                \o SliceFrom(sysex_data, 1) >>

RECURSIVE Forwarded(_)
\* send_sysex hands every frame to the response script, in order.
Forwarded(frames) ==
    IF frames = <<>> THEN <<>>
    ELSE RespondOnSysEx(Head(frames)) \o Forwarded(Tail(frames))

(***************************************************************************)
(* The context based client (__comms, __enable).                           *)
(***************************************************************************)
\* No client id (None).
NoId == 0 - 1

CtxInit ==
    /\ client_version = VERSION
    /\ ctx_client_id = NoId
    /\ ctx_res_port = <<>>
    /\ vcState = "idle"
    /\ vcRaised = None
    /\ ctx_sent = <<>>
    /\ ctx_log = <<>>
    /\ ctx_served = <<>>
    /\ ctx_execs = 0
    /\ execRaised = None
    /\ ctx_value = NoCall

IsPrefix(pre, msg) ==
    Len(pre) <= Len(msg) /\ SubSeq(msg, 1, Len(pre)) = pre

\* handle_received_message: "None" for a message dealt with here, "raise"
\* with the exception, or "response" with the bytes from the type on.
handle_received_message(msg, client_id) ==
    LET remaining_msg == SliceFrom(msg, Len(SYSEX_HEADER))
    IN  IF msg = DEVICE_ENQUIRY_MESSAGE
        THEN [kind |-> "enquiry", error |-> None, value |-> <<>>]
        ELSE IF ~IsPrefix(SYSEX_HEADER, msg)
        THEN [kind |-> "raise", error |-> "FlapiInvalidMsgError",
              value |-> <<>>]
        ELSE IF Len(remaining_msg) < 1
        THEN [kind |-> "raise", error |-> "IndexError", value |-> <<>>]
        ELSE IF At(remaining_msg, 0) # SERVER
        THEN [kind |-> "None", error |-> None, value |-> <<>>]
        ELSE IF Len(remaining_msg) < 2
        THEN [kind |-> "raise", error |-> "IndexError", value |-> <<>>]
        ELSE IF At(remaining_msg, 1) \notin {0, client_id}
        THEN [kind |-> "None", error |-> None, value |-> <<>>]
        ELSE IF Len(remaining_msg) < 3
        THEN [kind |-> "raise", error |-> "IndexError", value |-> <<>>]
        ELSE IF At(remaining_msg, 2) = STDOUT
        THEN IF b64decode(SliceFrom(remaining_msg, 3)).error # None
             THEN [kind |-> "raise", error |-> "binascii.Error",
                   value |-> <<>>]
             ELSE [kind |-> "None", error |-> None, value |-> <<>>]
        ELSE IF At(remaining_msg, 2) = CLIENT_GOODBYE
        THEN IF b64decode(SliceFrom(remaining_msg, 3)).error # None
             THEN [kind |-> "raise", error |-> "binascii.Error",
                   value |-> <<>>]
             ELSE IF ParseInt(b64decode(SliceFrom(remaining_msg, 3)).bytes)
                        .error # None
             THEN [kind |-> "raise", error |-> "ValueError",
                   value |-> <<>>]
             ELSE [kind |-> "raise", error |-> "FlapiClientExit",
                   value |-> <<>>]
        ELSE IF At(remaining_msg, 2) = SERVER_GOODBYE
        THEN [kind |-> "raise", error |-> "FlapiServerExit",
              value |-> <<>>]
        ELSE [kind |-> "response", error |-> None,
              value |-> SliceFrom(remaining_msg, 2)]

\* assert_response_is_ok(msg, expected_msg_type): the exception raised, or
\* None.  msg starts at the type byte.
assert_response_is_ok(msg, expected_msg_type) ==
    IF At(msg, 0) \notin MessageType THEN "ValueError"
    ELSE IF At(msg, 0) # expected_msg_type THEN "FlapiClientError"
    ELSE IF Len(msg) < 2 THEN "IndexError"
    ELSE IF At(msg, 1) = ERR THEN "ServerException"
    ELSE IF At(msg, 1) = FAIL THEN "FlapiServerError"
    ELSE None

\* a < b on tuples of integers.
TupleLess(a, b) ==
    \/ \E i \in 1..Min(Len(a), Len(b)) :
          /\ a[i] < b[i]
          /\ \A j \in 1..(i - 1) : a[j] = b[j]
    \/ /\ Len(a) < Len(b)
       /\ \A j \in 1..Len(a) : a[j] = b[j]

\* version_check with an outdated server only.
version_check_server_older(server, client) ==
    IF TupleLess(server, client) THEN "FlapiVersionError" ELSE None

\* version_check, once version_query has returned the server's version: the
\* exception raised, or None.
version_check(server, client) ==
    IF TupleLess(server, client) THEN "FlapiVersionError"
    ELSE IF TupleLess(client, server) THEN "FlapiVersionError"
    ELSE None

\* version_query and version_check on the response (from the type byte on).
version_query_response(response, client) ==
    IF assert_response_is_ok(response, VERSION_QUERY) # None
    THEN assert_response_is_ok(response, VERSION_QUERY)
    ELSE IF Len(SliceFrom(response, 2)) # 3 THEN "AssertionError"
    ELSE version_check(SliceFrom(response, 2), client)

(***************************************************************************)
(* FlapiBaseClient.  In the session a frame travels as one message, in the *)
(* layout the request script reads and the response script writes (origin, *)
(* client id, type, status for responses, payload); the layout and the     *)
(* fragmenting of FlapiMsg are specified on their own above.               *)
(***************************************************************************)
\* The client processes.
Procs == {"A", "B"}

BcInit ==
    /\ bc_client_id = [p \in Procs |-> NoId]
    /\ bc_pc = [p \in Procs |-> "ready"]
    /\ bc_tried = [p \in Procs |-> {}]
    /\ bc_last = [p \in Procs |-> "none"]
    /\ bc_raised = [p \in Procs |-> None]
    /\ bc_res_port = [p \in Procs |-> <<>>]
    /\ bc_ops = 0
    /\ bc_detail = [p \in Procs |-> <<>>]
    /\ bc_stdout = [p \in Procs |-> <<>>]
    /\ bc_seen = [p \in Procs |-> NoCall]
    /\ bc_timer = [p \in Procs |-> 0]
    /\ bc_waited = [p \in Procs |-> 0]
    /\ bc_arrived = 0
    /\ bc_timeout = [p \in Procs |-> 0]
    /\ bc_elapsed = [p \in Procs |-> 0]
    /\ bc_passes = [p \in Procs |-> <<>>]

\* comms.send_message(client_id, message_type, status, additional_data)
send_message(client_id, message_type, additional_data) ==
    ClientRequest(client_id, message_type, additional_data)

\* comms.receive_message on a message of the response port: the FlapiMsg,
\* or the bytes of a message that is none.
receive_message(raw) ==
    IF EventHeader(raw) = SYSEX_HEADER /\ Len(EventData(raw)) >= 4
          /\ EventOrigin(raw) \in MessageOrigin
          /\ At(EventData(raw), 3) \in MessageStatus
    THEN [kind |-> "FlapiMsg",
          msg |-> FlapiMsgNew(EventOrigin(raw), EventClientId(raw),
                              EventType(raw), At(EventData(raw), 3),
                              SliceFrom(EventData(raw), 4))]
    ELSE [kind |-> "bytes", msg |-> NoMsg]

\* The exception classes whose constructor text the model sends.
ExceptionNames == {"KeyError", "NameError"}

\* The name of an exception class as text.
ExceptionText(name) ==
    IF name = "KeyError" THEN <<75, 101, 121, 69, 114, 114, 111, 114>>
    ELSE <<78, 97, 109, 101, 69, 114, 114, 111, 114>>

\* repr(e) of an exception without arguments: "KeyError()".
ExceptionRepr(name) == ExceptionText(name) \o <<40, 41>>

\* bytes.decode(): the exception raised, or None.
Utf8Decode(data) ==
    IF \E i \in 1..Len(data) : data[i] >= 128
    THEN "UnicodeDecodeError" ELSE None

\* `raise eval(text)`: the exception raised.  The text of a constructor
\* gives that exception; any other text the model sends is no expression.
RaiseEval(text) ==
    IF \E n \in ExceptionNames : text = ExceptionRepr(n)
    THEN CHOOSE n \in ExceptionNames : text = ExceptionRepr(n)
    ELSE "SyntaxError"

\* assert_response_is_ok without the test of the message type.
bc_assert_response_is_ok_any_type(msg, expected_msg_type) ==
    LET decoded == b64decode(msg.additional_data)
    IN  IF msg.status_code = OK
        THEN [error |-> None, detail |-> <<>>]
        ELSE IF decoded.error # None
        THEN [error |-> decoded.error, detail |-> <<>>]
        ELSE IF Utf8Decode(decoded.bytes) # None
        THEN [error |-> Utf8Decode(decoded.bytes), detail |-> <<>>]
        ELSE IF msg.status_code = ERR
        THEN [error |-> RaiseEval(decoded.bytes), detail |-> <<>>]
        ELSE [error |-> "FlapiServerError", detail |-> decoded.bytes]

\* assert_response_is_ok of base_client: the exception raised (or None) and
\* its argument.
bc_assert_response_is_ok(msg, expected_msg_type) ==
    LET decoded == b64decode(msg.additional_data)
    IN  IF msg.msg_type # expected_msg_type
        THEN [error |-> "FlapiClientError", detail |-> <<>>]
        ELSE IF msg.status_code = OK
        THEN [error |-> None, detail |-> <<>>]
        ELSE IF decoded.error # None
        THEN [error |-> decoded.error, detail |-> <<>>]
        ELSE IF Utf8Decode(decoded.bytes) # None
        THEN [error |-> Utf8Decode(decoded.bytes), detail |-> <<>>]
        ELSE IF msg.status_code = ERR
        THEN [error |-> RaiseEval(decoded.bytes), detail |-> <<>>]
        ELSE [error |-> "FlapiServerError", detail |-> decoded.bytes]

\* A dispatcher without the loopback test.
IsLoopback_never(msg) == FALSE

\* `if msg.origin != MessageOrigin.SERVER: continue`
IsLoopback(msg) == msg.origin # SERVER

\* A dispatcher without the test for other clients.
IsOtherClient_never(msg, own_id) == FALSE

\* `if msg.client_id not in [0, self.__client_id]: continue`
IsOtherClient(msg, own_id) == msg.client_id \notin {0, own_id}

\* A callback that is called twice for one message.
stdout_callback_twice(console, text) == Append(Append(console, text), text)

\* self.stdout_callback(text): the text reaches the console.
stdout_callback(console, text) == Append(console, text)

\* An exit that loses the code of the message.
ExitCode_lost(text) == 0

\* `code = int(b64decode(msg.additional_data).decode())`
ExitCode(text) == ParseInt(text).value

\* One pass of the loop of __receive_and_dispatch on a received message:
\* "continue", "stdout" (the text goes to stdout_callback, then continue),
\* "raise" with the exception, or "return" with the message.  detail is the
\* text of a STDOUT message or the exit code of a CLIENT_GOODBYE.
receive_and_dispatch(raw, own_id) ==
    LET got == receive_message(raw)
        msg == got.msg
        decoded == b64decode(msg.additional_data)
    IN  IF got.kind = "bytes"
        THEN IF SliceToLast(raw, 1) = DEVICE_ENQUIRY_MESSAGE
             THEN [kind |-> "enquiry", error |-> None, msg |-> NoMsg,
                   detail |-> <<>>]
             ELSE \* default_unknown_msg_callback
                  [kind |-> "raise", error |-> "FlapiInvalidMsgError",
                   msg |-> NoMsg, detail |-> <<>>]
        ELSE IF IsLoopback(msg)
        THEN [kind |-> "continue", error |-> None, msg |-> NoMsg,
              detail |-> <<>>]
        ELSE IF IsOtherClient(msg, own_id)
        THEN [kind |-> "continue", error |-> None, msg |-> NoMsg,
              detail |-> <<>>]
        ELSE IF msg.msg_type = STDOUT
        THEN IF decoded.error # None
             THEN [kind |-> "raise", error |-> "binascii.Error",
                   msg |-> NoMsg, detail |-> <<>>]
             ELSE IF Utf8Decode(decoded.bytes) # None
             THEN [kind |-> "raise", error |-> Utf8Decode(decoded.bytes),
                   msg |-> NoMsg, detail |-> <<>>]
             ELSE [kind |-> "stdout", error |-> None, msg |-> NoMsg,
                   detail |-> decoded.bytes]
        ELSE IF msg.msg_type = CLIENT_GOODBYE
        THEN IF decoded.error # None
             THEN [kind |-> "raise", error |-> "binascii.Error",
                   msg |-> NoMsg, detail |-> <<>>]
             ELSE IF ParseInt(decoded.bytes).error # None
             THEN [kind |-> "raise", error |-> ParseInt(decoded.bytes).error,
                   msg |-> NoMsg, detail |-> <<>>]
             ELSE [kind |-> "raise", error |-> "FlapiClientExit",
                   msg |-> NoMsg,
                   detail |-> <<ExitCode(decoded.bytes)>>]
        ELSE IF msg.msg_type = SERVER_GOODBYE
        THEN [kind |-> "raise", error |-> "FlapiServerExit", msg |-> NoMsg,
              detail |-> <<>>]
        ELSE [kind |-> "return", error |-> None, msg |-> msg,
              detail |-> <<>>]

(***************************************************************************)
(* The frame codec: a frame is encoded by to_bytes, every buffer travels   *)
(* as one sysex message, and the receiver decodes each message and merges  *)
(* it with append until a message without the continuation flag arrives.   *)
(***************************************************************************)
\* The payload of n bytes 1, 2, .., n: distinct bytes, so that a lost,
\* repeated or reordered chunk shows.
Payload(n) == [i \in 1..n |-> i]

CodecFrames ==
    { FlapiMsgNew(o, c, t, s, Payload(n)) :
        o \in {CLIENT, SERVER}, c \in {1, 2}, t \in {EXEC},
        s \in {OK, ERR}, n \in 0..MaxPayloadLen }

CodecInit ==
    /\ frame = NoMsg
    /\ msgs = <<>>
    /\ wire = <<>>
    /\ pending = NoMsg
    /\ assembled = <<>>
    /\ codecErr = None

\* msg.to_bytes(), each buffer sent as MidoMsg("sysex", data=m).
CodecEncode(f) ==
    /\ frame = NoMsg
    /\ frame' = f
    /\ msgs' = to_bytes(f)
    /\ wire' = [i \in 1..Len(to_bytes(f)) |-> MidoSysex(to_bytes(f)[i])]
    /\ UNCHANGED <<pending, assembled, codecErr>>

\* One received sysex message: FlapiMsg(bytes), then append to the message
\* in progress (or start one), then hand it over once the continuation
\* flag is clear.
CodecFeed ==
    /\ wire # <<>>
    /\ codecErr = None
    /\ LET dec == FlapiMsgFromBytes(Head(wire))
           app == IF pending = NoMsg
                  THEN [error |-> None, msg |-> dec.msg]
                  ELSE FlapiMsgAppend(pending, dec.msg)
       IN  /\ wire' = Tail(wire)
           /\ IF dec.error # None
              THEN /\ codecErr' = dec.error
                   /\ UNCHANGED <<pending, assembled>>
              ELSE IF app.error # None
              THEN /\ codecErr' = app.error
                   /\ UNCHANGED <<pending, assembled>>
              ELSE IF app.msg.continuation
              THEN /\ pending' = app.msg
                   /\ UNCHANGED <<assembled, codecErr>>
              ELSE /\ pending' = NoMsg
                   /\ assembled' = Append(assembled, app.msg)
                   /\ UNCHANGED codecErr
    /\ UNCHANGED <<frame, msgs>>

\* The state after construction: nothing encoded, nothing received.
Init == CodecInit /\ CommsInit /\ ServerInit /\ req_port = <<>> /\ CtxInit /\ BcInit

CodecNext ==
    \/ \E f \in CodecFrames : CodecEncode(f) /\ UNCHANGED <<commsVars, serverVars, req_port, ctxVars, bcVars>>
    \/ CodecFeed /\ UNCHANGED <<commsVars, serverVars, req_port, ctxVars, bcVars>>

SpecCodec == Init /\ [][CodecNext]_vars

\* Every buffer of the frame has been decoded.
CodecDone == frame # NoMsg /\ wire = <<>>

\* Fields of an encoded buffer (to_bytes output, no sysex framing).
BufHeader(b) == Slice(b, 0, Len(SYSEX_HEADER))
BufOrigin(b) == At(b, Len(SYSEX_HEADER))
BufClientId(b) == At(b, Len(SYSEX_HEADER) + 1)
BufContinuation(b) == At(b, Len(SYSEX_HEADER) + 2) # 0
BufMsgType(b) == At(b, Len(SYSEX_HEADER) + 3)
BufStatus(b) == At(b, Len(SYSEX_HEADER) + 4)
BufData(b) == SliceFrom(b, Len(SYSEX_HEADER) + 5)

RECURSIVE Concat(_)
Concat(ss) == IF ss = <<>> THEN <<>> ELSE Head(ss) \o Concat(Tail(ss))

\* C1: the buffers of to_bytes(f), decoded and reassembled in order, give
\* exactly one complete frame, equal to f in origin, client_id, msg_type,
\* status and payload, and leave nothing pending.
C1_RoundTrip ==
    CodecDone =>
        /\ codecErr = None
        /\ pending = NoMsg
        /\ Len(assembled) = 1
        /\ assembled[1].origin = frame.origin
        /\ assembled[1].client_id = frame.client_id
        /\ assembled[1].msg_type = frame.msg_type
        /\ assembled[1].status_code = frame.status_code
        /\ assembled[1].additional_data = frame.additional_data

\* C2: to_bytes emits one buffer per chunk of at most MAX_DATA_LEN payload
\* bytes, in payload order, all with the frame's origin, client_id, msg_type
\* and status, the continuation byte set on every buffer except the last.
C2_Fragmentation ==
    frame # NoMsg =>
        /\ Concat([i \in 1..Len(msgs) |-> BufData(msgs[i])])
               = frame.additional_data
        /\ \A i \in 1..Len(msgs) :
              /\ Len(BufData(msgs[i])) <= MAX_DATA_LEN
              /\ BufOrigin(msgs[i]) = frame.origin
              /\ BufClientId(msgs[i]) = frame.client_id
              /\ BufMsgType(msgs[i]) = frame.msg_type
              /\ BufStatus(msgs[i]) = frame.status_code
              /\ BufContinuation(msgs[i]) = (i # Len(msgs))

\* C3: a payload of exactly MAX_DATA_LEN bytes is one buffer with the
\* continuation byte clear; a payload of MAX_DATA_LEN + 1 bytes is two
\* buffers.
C3_Boundary ==
    /\ (frame # NoMsg /\ Len(frame.additional_data) = MAX_DATA_LEN) =>
          (Len(msgs) = 1 /\ ~BufContinuation(msgs[1]))
    /\ (frame # NoMsg /\ Len(frame.additional_data) = MAX_DATA_LEN + 1) =>
          Len(msgs) = 2

(***************************************************************************)
(* The receive path on its own: the response port delivers messages, the   *)
(* client polls.                                                           *)
(***************************************************************************)
\* Messages delivered to the response port.
MaxReceived == 3

\* One buffer in the layout of to_bytes.
FragmentBytes(origin, client_id, continuation, msg_type, data) ==
    SYSEX_HEADER
    \o <<origin, client_id, BoolByte(continuation), msg_type, OK>>
    \o data

\* What the port may deliver: fragments that the decoder accepts once
\* try_receive_message has dropped the first and the last byte, a buffer of
\* to_bytes as Mido frames it, and a foreign message.
PortMessages ==
    { MidoSysex(MidoSysex(FragmentBytes(o, c, k, t, <<7>>))) :
        o \in {CLIENT, SERVER}, c \in {1, 2}, k \in BOOLEAN,
        t \in {EXEC, EVAL} }
    \cup { MidoSysex(FragmentBytes(SERVER, 1, FALSE, EXEC, <<7>>)),
           MidoSysex(DEVICE_ENQUIRY_MESSAGE) }

PortDeliver(m) ==
    /\ received < MaxReceived
    /\ received' = received + 1
    /\ res_port' = Append(res_port, m)
    /\ UNCHANGED <<incoming_data, returned, commsErr, lastCall>>

CommsNext ==
    \/ \E m \in PortMessages : PortDeliver(m) /\ UNCHANGED <<codecVars, serverVars, req_port, ctxVars, bcVars>>
    \/ try_receive_message /\ UNCHANGED <<codecVars, serverVars, req_port, ctxVars, bcVars>>

SpecComms == Init /\ [][CommsNext]_vars

\* The fragment of the last call does not belong to the frame in progress.
FragmentMismatch ==
    /\ lastCall # NoCall
    /\ lastCall.before # NoMsg
    /\ \/ lastCall.before.origin # lastCall.fragment.origin
       \/ lastCall.before.client_id # lastCall.fragment.client_id
       \/ lastCall.before.msg_type # lastCall.fragment.msg_type

\* C4: while a frame is being reassembled, a fragment that differs from it
\* in origin, client_id or msg_type makes try_receive_message raise
\* FlapiInvalidMsgError, and the fragment is not merged into the frame.
C4_MismatchRaises ==
    FragmentMismatch =>
        /\ commsErr = "FlapiInvalidMsgError"
        /\ incoming_data = lastCall.before

\* C27: try_receive_message returns the assembled FlapiMsg exactly when the
\* fragment it has just merged has the continuation flag clear, and None
\* when that flag is set; so between calls __incoming_data is empty or
\* holds a message whose continuation flag is set.
C27_ReturnsWhenComplete ==
    /\ incoming_data = NoMsg \/ incoming_data.continuation
    /\ (lastCall # NoCall /\ commsErr = None) =>
          IF lastCall.fragment.continuation
          THEN /\ returned = RetNone
               /\ incoming_data # NoMsg
               /\ incoming_data.additional_data
                     = (IF lastCall.before = NoMsg THEN <<>>
                        ELSE lastCall.before.additional_data)
                       \o lastCall.fragment.additional_data
          ELSE /\ returned.kind = "FlapiMsg"
               /\ ~returned.msg.continuation
               /\ returned.msg.additional_data
                     = (IF lastCall.before = NoMsg THEN <<>>
                        ELSE lastCall.before.additional_data)
                       \o lastCall.fragment.additional_data
               /\ incoming_data = NoMsg

\* The second fragment of a message, its continuation flag clear, has been
\* merged and the message of both was returned.
C27_Witness ==
    /\ lastCall # NoCall
    /\ lastCall.before # NoMsg
    /\ ~lastCall.fragment.continuation
    /\ returned.kind = "FlapiMsg"
    /\ returned.msg.additional_data = <<7, 7>>
    /\ incoming_data = NoMsg

\* A fragment with the continuation flag set has been merged and None was
\* returned.
C27_Pending ==
    /\ lastCall # NoCall
    /\ lastCall.fragment.continuation
    /\ commsErr = None
    /\ returned = RetNone
    /\ incoming_data # NoMsg

\* A message that carries the Flapi marker nowhere.
Foreign(m) ==
    \A i \in 1..Len(m) :
        SubSeq(m, i, Min(Len(m), i + Len(SYSEX_HEADER) - 1)) # SYSEX_HEADER

\* The step is a call of try_receive_message that takes a message.
TakesMessage == res_port # <<>> /\ res_port' = Tail(res_port)

\* The message taken is a fragment that completes the message in progress.
TakesLastFragment ==
    LET dec == FlapiMsgFromBytes(SliceToLast(Head(res_port), 1))
    IN  /\ dec.error = None
        /\ ~dec.msg.continuation
        /\ dec.msg.origin = incoming_data.origin
        /\ dec.msg.client_id = incoming_data.client_id
        /\ dec.msg.msg_type = incoming_data.msg_type

\* C38: a message that is no Flapi message, received while a frame is being
\* reassembled, is returned as its bytes and the pending __incoming_data is
\* left as it was; the fragment that then completes the frame yields the
\* whole frame: the data pending before the foreign message followed by the
\* data of that fragment.
C38_ForeignKeepsPending ==
    /\ [][(TakesMessage /\ incoming_data # NoMsg /\ Foreign(Head(res_port)))
            => /\ returned'.kind = "bytes"
               /\ returned'.bytes = Head(res_port)
               /\ commsErr' = None
               /\ incoming_data' = incoming_data]_vars
    /\ [][(TakesMessage /\ incoming_data # NoMsg /\ returned.kind = "bytes"
           /\ Foreign(returned.bytes) /\ TakesLastFragment)
            => /\ returned'.kind = "FlapiMsg"
               /\ ~returned'.msg.continuation
               /\ returned'.msg.additional_data
                     = incoming_data.additional_data
                       \o FlapiMsgFromBytes(SliceToLast(Head(res_port), 1))
                              .msg.additional_data
               /\ incoming_data' = NoMsg]_vars

\* The device enquiry has been returned as bytes while the first fragment
\* of a frame is pending, and the fragment that completes the frame is the
\* next message on the port.
C38_Witness ==
    /\ returned.kind = "bytes"
    /\ returned.bytes = MidoSysex(DEVICE_ENQUIRY_MESSAGE)
    /\ Foreign(returned.bytes)
    /\ incoming_data # NoMsg
    /\ incoming_data.additional_data = <<7>>
    /\ res_port # <<>>
    /\ TakesLastFragment

(***************************************************************************)
(* The request script on its own: clients' requests arrive as sysex        *)
(* events.                                                                 *)
(***************************************************************************)
ClientIds == {1, 2}

\* Statements and expressions sent for execution: x=1, x=2, print(x),
\* connected_clients[1]['x']=2, connected_clients[2]['x']=2, and "=".
ExecSources ==
    { <<120, 61, 49>>, <<120, 61, 50>>,
      <<112, 114, 105, 110, 116, 40, 120, 41>>,
      <<61>> }
    \cup { <<99, 111, 110, 110, 101, 99, 116, 101, 100, 95, 99, 108, 105,
             101, 110, 116, 115, 91, 48 + c, 93, 91, 39, 120, 39, 93, 61,
             50>> : c \in ClientIds }

\* Exit codes as text: "0", "7" and "07".
GoodbyeTexts == { <<48>>, <<55>>, <<48, 55>> }

ServerEvents ==
    UNION { { ClientRequest(c, CLIENT_HELLO, <<>>),
              ClientRequest(c, VERSION_QUERY, <<>>),
              ClientRequest(c, EVAL, b64encode(<<120>>)) }
            \cup { ClientRequest(c, CLIENT_GOODBYE, b64encode(t)) :
                     t \in GoodbyeTexts }
            \cup { ClientRequest(c, EXEC, b64encode(src)) :
                     src \in ExecSources } : c \in ClientIds }
    \cup { \* not from a client, no handler, no such type, bad payloads
           MidoSysex(SYSEX_HEADER \o <<SERVER, 1, CLIENT_HELLO>>),
           ClientRequest(1, STDOUT, b64encode(<<120>>)),
           ClientRequest(1, 9, <<>>),
           ClientRequest(1, EXEC, <<120>>),
           ClientRequest(1, CLIENT_GOODBYE, b64encode(<<120>>)),
           MidoSysex(SYSEX_HEADER \o <<CLIENT>>),
           MidoSysex(DEVICE_ENQUIRY_MESSAGE) }

ServerNext ==
    \E e \in ServerEvents : OnSysEx(e)
        /\ UNCHANGED <<codecVars, commsVars, req_port, ctxVars, bcVars>>

SpecServer == Init /\ [][ServerNext]_vars

\* C6: a session's scope holds exactly what its own client's requests since
\* its hello have defined: definitions persist for the client that made
\* them, and nothing another client executed shows in it.
C6_ScopeIsolation == connected_clients = solo

\* Fields of a dispatched frame beyond those of an event.
ResponseStatus(f) == At(EventData(f), 3)
ResponsePayload(f) == SliceFrom(EventData(f), 4)

\* The frames of one type among those dispatched for the last event.
DispatchedOfType(t) == SelectSeq(dispatched, LAMBDA f : EventType(f) = t)

\* The last event was a hello from a client.
HelloEvent == EventHandled(lastEvent) /\ EventType(lastEvent) = CLIENT_HELLO

\* A hello for a free id creates the session and is answered by exactly one
\* CLIENT_HELLO OK frame addressed to the id.
HelloFreeAccepted ==
    (HelloEvent /\ EventClientId(lastEvent) \notin DOMAIN before) =>
        /\ connected_clients =
               DictPut(before, EventClientId(lastEvent), EmptyDict)
        /\ Len(DispatchedOfType(CLIENT_HELLO)) = 1
        /\ EventClientId(DispatchedOfType(CLIENT_HELLO)[1])
               = EventClientId(lastEvent)
        /\ ResponseStatus(DispatchedOfType(CLIENT_HELLO)[1]) = OK

\* C7 (as stated): a hello for an id with a live session dispatches no frame
\* at all and leaves connected_clients as it was; a hello for a free id
\* creates the session and is answered by exactly one CLIENT_HELLO OK frame.
C7_HelloLiveNoFrame ==
    /\ (HelloEvent /\ EventClientId(lastEvent) \in DOMAIN before) =>
          /\ dispatched = <<>>
          /\ connected_clients = before
    /\ HelloFreeAccepted

\* C7 (amended): a hello for an id with a live session is not answered: the
\* only frame dispatched is the STDOUT frame of the capture flush, addressed
\* to that id and empty, and connected_clients, scopes included, is as it
\* was; a hello for a free id creates the session and is answered by exactly
\* one CLIENT_HELLO OK frame.
C7_HelloLiveNotAnswered ==
    /\ (HelloEvent /\ EventClientId(lastEvent) \in DOMAIN before) =>
          /\ dispatched = <<res_stdout(EventClientId(lastEvent), <<>>)>>
          /\ connected_clients = before
    /\ HelloFreeAccepted

\* A hello has arrived for an id whose session holds a definition.
C7_Witness ==
    /\ HelloEvent
    /\ EventClientId(lastEvent) \in DOMAIN before
    /\ before[EventClientId(lastEvent)] # EmptyDict

\* The last event was a goodbye, with a readable exit code, from a client
\* that has a session.
GoodbyeEvent ==
    /\ EventHandled(lastEvent)
    /\ EventType(lastEvent) = CLIENT_GOODBYE
    /\ EventClientId(lastEvent) \in DOMAIN before
    /\ b64decode(EventPayload(lastEvent)).error = None
    /\ ParseInt(b64decode(EventPayload(lastEvent)).bytes).error = None

\* The exit code a goodbye frame carries.
GoodbyeCode(f) == ParseInt(b64decode(f).bytes)

\* C8: a goodbye from a client with a session removes that session and no
\* other, and a CLIENT_GOODBYE frame addressed to that client is dispatched
\* that carries the same exit code.
C8_GoodbyeRemovesSession ==
    GoodbyeEvent =>
        /\ connected_clients = DictPop(before, EventClientId(lastEvent))
        /\ Len(DispatchedOfType(CLIENT_GOODBYE)) = 1
        /\ LET f == DispatchedOfType(CLIENT_GOODBYE)[1]
           IN  /\ EventClientId(f) = EventClientId(lastEvent)
               /\ b64decode(ResponsePayload(f)).error = None
               /\ GoodbyeCode(ResponsePayload(f)).error = None
               /\ GoodbyeCode(ResponsePayload(f)).value
                      = GoodbyeCode(EventPayload(lastEvent)).value

\* A goodbye with the code written "07" has arrived while two sessions were
\* alive.
C8_Witness ==
    /\ GoodbyeEvent
    /\ Cardinality(DOMAIN before) = 2
    /\ b64decode(EventPayload(lastEvent)).bytes = <<48, 55>>

\* The text the last request printed while its handler ran.
RequestOutput ==
    IF EventHandled(lastEvent) /\ EventType(lastEvent) = EXEC
       /\ b64decode(EventPayload(lastEvent)).error = None
    THEN python_exec(b64decode(EventPayload(lastEvent)).bytes,
                     EventClientId(lastEvent), before).out
    ELSE <<>>

\* The positions of the STDOUT frames, and of the others, among the frames
\* dispatched for the last event.
StdoutPositions ==
    { i \in 1..Len(dispatched) : EventType(dispatched[i]) = STDOUT }
ResponsePositions ==
    { i \in 1..Len(dispatched) : EventType(dispatched[i]) # STDOUT }

\* The text the STDOUT frames dispatched for the last event carry.
DispatchedText ==
    Concat([i \in 1..Len(DispatchedOfType(STDOUT)) |->
               b64decode(ResponsePayload(DispatchedOfType(STDOUT)[i])).bytes])

\* For a request that reached a handler the STDOUT frames are dispatched
\* before the response, are addressed to the requesting client and carry
\* what the request printed.
StdoutBeforeResponse ==
    EventHandled(lastEvent) =>
        /\ \A i \in StdoutPositions, j \in ResponsePositions : i < j
        /\ \A i \in StdoutPositions :
              EventClientId(dispatched[i]) = EventClientId(lastEvent)
        /\ \A j \in ResponsePositions :
              /\ EventType(dispatched[j]) = EventType(lastEvent)
              /\ ResponseStatus(dispatched[j]) \in {OK, ERR}
        /\ DispatchedText = RequestOutput

\* C13: after every OnSysEx, whether the handler returned or raised, the
\* capture is off: Capout.enabled is false, sys.stdout is the real stdout
\* and the target is 0.  The capture was on, with the requesting client as
\* its target, exactly while a handler ran.
C13_CaptureOff ==
    /\ ~capout.enabled
    /\ sys_stdout = "real_stdout"
    /\ capout.target = 0
    /\ (capout_during # NoCall) <=> EventHandled(lastEvent)
    /\ capout_during # NoCall =>
          /\ capout_during.self.enabled
          /\ capout_during.stdout = "fake_stdout"
          /\ capout_during.self.target = EventClientId(lastEvent)

\* A handler has raised: a goodbye from a client without a session.
C13_Witness ==
    /\ EventHandled(lastEvent)
    /\ serverErr = "KeyError"
    /\ capout_during # NoCall

\* The last event was an EXEC or EVAL request of a client that had no
\* session when the request arrived.
NoSessionRequest ==
    /\ EventHandled(lastEvent)
    /\ EventType(lastEvent) \in {EXEC, EVAL}
    /\ EventClientId(lastEvent) \notin DOMAIN before

\* C33: an EXEC or EVAL request of a client id without a session runs no
\* code in any scope and creates no session: connected_clients is what it
\* was, nothing was printed, no response reports success, and the capture
\* is off again when OnSysEx has returned.
C33_NoSessionNoRun ==
    NoSessionRequest =>
        /\ connected_clients = before
        /\ DispatchedText = <<>>
        /\ \A i \in DOMAIN dispatched :
              EventType(dispatched[i]) # STDOUT
                  => ResponseStatus(dispatched[i]) = ERR
        /\ ~capout.enabled
        /\ sys_stdout = "real_stdout"
        /\ capout.target = 0

\* An assignment was sent for a client without a session while another
\* client had one, and it was answered with an error.
C33_Witness ==
    /\ NoSessionRequest
    /\ EventType(lastEvent) = EXEC
    /\ b64decode(EventPayload(lastEvent)).bytes = <<120, 61, 49>>
    /\ before # EmptyDict
    /\ dispatched # <<>>
    /\ ResponseStatus(dispatched[Len(dispatched)]) = ERR

\* The frames dispatched for the last event that are no STDOUT frames.
Responses == SelectSeq(dispatched, LAMBDA f : EventType(f) # STDOUT)

\* C34: every request of a client that reaches a handler is answered by
\* exactly one frame that is no STDOUT frame, carrying the client id and the
\* type of the request; only a hello for an id in use is answered by none.
C34_OneResponse ==
    EventHandled(lastEvent) =>
        IF HelloEvent /\ EventClientId(lastEvent) \in DOMAIN before
        THEN Responses = <<>>
        ELSE /\ Len(Responses) = 1
             /\ EventClientId(Responses[1]) = EventClientId(lastEvent)
             /\ EventType(Responses[1]) = EventType(lastEvent)

\* The last event was a request of a client whose type has no handler.
UnhandledRequest ==
    /\ EventHeader(lastEvent) = SYSEX_HEADER
    /\ Len(EventData(lastEvent)) >= 3
    /\ EventOrigin(lastEvent) = CLIENT
    /\ EventType(lastEvent) \notin HandledTypes

\* C35: a request of a client whose type has no handler is answered: one
\* frame of that type with the status FAIL is dispatched to the sender's
\* client id, and no session changes.
C35_UnknownTypeFails ==
    UnhandledRequest =>
        /\ connected_clients = before
        /\ Len(dispatched) = 1
        /\ EventClientId(dispatched[1]) = EventClientId(lastEvent)
        /\ EventType(dispatched[1]) = EventType(lastEvent)
        /\ ResponseStatus(dispatched[1]) = FAIL

(***************************************************************************)
(* The version gate: a connected client of some version checks the version *)
(* of the server it talks to.                                              *)
(***************************************************************************)
\* Largest component of a version.
MaxVersionPart == 2

Versions ==
    { <<a, b, c>> : a \in 0..MaxVersionPart, b \in 0..MaxVersionPart,
                    c \in 0..MaxVersionPart }

\* The client has said hello as client 1; the two installations have any
\* versions.
VersionInit ==
    /\ CodecInit /\ CommsInit /\ BcInit /\ CapoutInit
    /\ connected_clients = DictPut(EmptyDict, 1, make_client_globals(1))
    /\ solo = connected_clients
    /\ dispatched = <<>>
    /\ serverErr = None
    /\ lastEvent = <<>>
    /\ before = EmptyDict
    /\ server_version \in Versions
    /\ req_port = <<>>
    /\ client_version \in Versions
    /\ ctx_client_id = 1
    /\ ctx_res_port = <<>>
    /\ vcState = "idle"
    /\ vcRaised = None
    /\ ctx_sent = <<>>
    /\ ctx_log = <<>>
    /\ ctx_served = <<>>
    /\ ctx_execs = 0
    /\ execRaised = None
    /\ ctx_value = NoCall

\* What the client does with a received message, for the record: the text
\* handed to handle_stdout, the response returned, or nothing.
CtxLogEntry(msg, client_id) ==
    LET got == handle_received_message(msg, client_id)
        remaining_msg == SliceFrom(msg, Len(SYSEX_HEADER))
    IN  IF got.kind = "None" /\ Len(remaining_msg) >= 3
           /\ At(remaining_msg, 0) = SERVER
           /\ At(remaining_msg, 1) \in {0, client_id}
           /\ At(remaining_msg, 2) = STDOUT
        THEN [kind |-> "stdout",
              data |-> b64decode(SliceFrom(remaining_msg, 3)).bytes]
        ELSE IF got.kind = "response"
        THEN [kind |-> "response", data |-> got.value]
        ELSE [kind |-> got.kind, data |-> <<>>]

\* version_check: version_query sends the request.
VcQuery ==
    /\ vcState = "idle"
    /\ vcState' = "waiting"
    /\ req_port' = Append(req_port,
                          ClientRequest(ctx_client_id, VERSION_QUERY, <<>>))
    /\ ctx_sent' = Append(ctx_sent,
                          ClientRequest(ctx_client_id, VERSION_QUERY, <<>>))
    /\ UNCHANGED <<client_version, ctx_client_id, ctx_res_port, vcRaised,
                   ctx_log, ctx_served, ctx_execs, execRaised, ctx_value>>

\* The request script handles the request; its frames reach the client's
\* response port through the response script.
VcServe ==
    /\ req_port # <<>>
    /\ OnSysEx(Head(req_port))
    /\ req_port' = Tail(req_port)
    /\ ctx_res_port' = ctx_res_port \o Forwarded(dispatched')
    /\ ctx_served' = ctx_served
                      \o [i \in 1..Len(Forwarded(dispatched')) |->
                             [frame |-> Forwarded(dispatched')[i],
                              request |-> Len(ctx_sent) - Len(req_port) + 1]]
    /\ UNCHANGED <<client_version, ctx_client_id, vcState, vcRaised,
                   ctx_sent, ctx_log, ctx_execs, execRaised, ctx_value>>

\* receive_message / poll_for_message: one message of the response port.
VcPoll ==
    /\ vcState = "waiting"
    /\ ctx_res_port # <<>>
    /\ ctx_res_port' = Tail(ctx_res_port)
    /\ ctx_log' = Append(ctx_log,
                         CtxLogEntry(SliceToLast(Head(ctx_res_port), 1),
                                     ctx_client_id))
    /\ LET got == handle_received_message(
                      SliceToLast(Head(ctx_res_port), 1), ctx_client_id)
       IN  IF got.kind = "enquiry"
           THEN /\ req_port' = Append(req_port,
                                      MidoSysex(DEVICE_ENQUIRY_RESPONSE))
                /\ UNCHANGED <<vcState, vcRaised>>
           ELSE /\ UNCHANGED req_port
                /\ IF got.kind = "None"
                   THEN UNCHANGED <<vcState, vcRaised>>
                   ELSE /\ vcState' = "done"
                        /\ vcRaised' =
                              IF got.kind = "raise" THEN got.error
                              ELSE version_query_response(got.value,
                                                          client_version)
    /\ UNCHANGED <<client_version, ctx_client_id, ctx_sent, ctx_served,
                   ctx_execs, execRaised, ctx_value>>

\* receive_message: nothing arrived within TIMEOUT_DURATION.
VcTimeout ==
    /\ vcState = "waiting"
    /\ ctx_res_port = <<>>
    /\ vcState' = "done"
    /\ vcRaised' = "FlapiTimeoutError"
    /\ UNCHANGED <<client_version, ctx_client_id, ctx_res_port, req_port,
                   ctx_sent, ctx_log, ctx_served, ctx_execs, execRaised,
                   ctx_value>>

\* Calls of fl_exec by one client.
MaxCtxExecs == 3

\* "import m", the statement of setup_server.
ImportSource == <<105, 109, 112, 111, 114, 116, 32, 109>>

\* Code the application runs: x=1 and print(x).
AppSources == { <<120, 61, 49>>, <<112, 114, 105, 110, 116, 40, 120, 41>> }

\* fl_exec(code) of the client: the request is sent once the context has a
\* client id.  It is called by setup_server when version_check has returned,
\* and by the application afterwards, or after the exception of
\* version_check has left enable().
CtxExec(code) ==
    /\ vcState \in {"done", "ready"}
    /\ ctx_execs < MaxCtxExecs
    /\ ctx_client_id # NoId
    /\ IF vcState = "done" /\ vcRaised = None
       THEN code = ImportSource
       ELSE code \in AppSources
    /\ vcState' = "exec"
    /\ execRaised' = None
    /\ ctx_execs' = ctx_execs + 1
    /\ req_port' = Append(req_port,
                          ClientRequest(ctx_client_id, EXEC,
                                        b64encode(code)))
    /\ ctx_sent' = Append(ctx_sent,
                          ClientRequest(ctx_client_id, EXEC,
                                        b64encode(code)))
    /\ UNCHANGED <<client_version, ctx_client_id, ctx_res_port, vcRaised,
                   ctx_log, ctx_served, ctx_value>>

\* fl_exec: receive_message / poll_for_message, one message, and
\* assert_response_is_ok on the response.
CtxExecPoll ==
    /\ vcState = "exec"
    /\ ctx_res_port # <<>>
    /\ ctx_res_port' = Tail(ctx_res_port)
    /\ ctx_log' = Append(ctx_log,
                         CtxLogEntry(SliceToLast(Head(ctx_res_port), 1),
                                     ctx_client_id))
    /\ LET got == handle_received_message(
                      SliceToLast(Head(ctx_res_port), 1), ctx_client_id)
       IN  IF got.kind = "enquiry"
           THEN /\ req_port' = Append(req_port,
                                      MidoSysex(DEVICE_ENQUIRY_RESPONSE))
                /\ UNCHANGED <<vcState, execRaised>>
           ELSE /\ UNCHANGED req_port
                /\ IF got.kind = "None"
                   THEN UNCHANGED <<vcState, execRaised>>
                   ELSE /\ vcState' = "ready"
                        /\ execRaised' =
                              IF got.kind = "raise" THEN got.error
                              ELSE assert_response_is_ok(got.value, EXEC)
    /\ UNCHANGED <<client_version, ctx_client_id, vcRaised, ctx_sent,
                   ctx_served, ctx_execs, ctx_value>>

\* fl_exec: nothing arrived within TIMEOUT_DURATION.
CtxExecTimeout ==
    /\ vcState = "exec"
    /\ ctx_res_port = <<>>
    /\ vcState' = "ready"
    /\ execRaised' = "FlapiTimeoutError"
    /\ UNCHANGED <<client_version, ctx_client_id, ctx_res_port, req_port,
                   vcRaised, ctx_sent, ctx_log, ctx_served, ctx_execs,
                   ctx_value>>

VersionNext ==
    \/ VcQuery /\ UNCHANGED <<codecVars, commsVars, serverVars, bcVars>>
    \/ VcServe /\ UNCHANGED <<codecVars, commsVars, bcVars>>
    \/ VcPoll /\ UNCHANGED <<codecVars, commsVars, serverVars, bcVars>>
    \/ VcTimeout /\ UNCHANGED <<codecVars, commsVars, serverVars, bcVars>>

SpecVersion == VersionInit /\ [][VersionNext]_vars

\* version_check has ended on the server's answer.
VcAnswered == vcState = "done" /\ vcRaised # "FlapiTimeoutError"

\* C10: version_check raises FlapiVersionError when the server's version
\* differs from the client's, whichever is the newer, and raises nothing
\* when the two are the same.
C10_VersionGate ==
    VcAnswered =>
        IF server_version # client_version
        THEN vcRaised = "FlapiVersionError"
        ELSE vcRaised = None

\* Client (1,0,0) has checked against server (1,1,0).
C10_Witness ==
    /\ VcAnswered
    /\ client_version = <<1, 0, 0>>
    /\ server_version = <<1, 1, 0>>

(***************************************************************************)
(* The context based client after hello(): setup_server checks the version *)
(* and imports the modules, and the application runs code.                 *)
(***************************************************************************)
\* The versions the server scripts may have: the client's and a newer one.
ServerVersions == { VERSION, <<1, 1, 0>> }

\* The client has said hello as client 1.
ContextInit ==
    /\ CodecInit /\ CommsInit /\ BcInit /\ CapoutInit
    /\ connected_clients = DictPut(EmptyDict, 1, make_client_globals(1))
    /\ solo = connected_clients
    /\ dispatched = <<>>
    /\ serverErr = None
    /\ lastEvent = <<>>
    /\ before = EmptyDict
    /\ server_version \in ServerVersions
    /\ req_port = <<>>
    /\ client_version = VERSION
    /\ ctx_client_id = 1
    /\ ctx_res_port = <<>>
    /\ vcState = "idle"
    /\ vcRaised = None
    /\ ctx_sent = <<>>
    /\ ctx_log = <<>>
    /\ ctx_served = <<>>
    /\ ctx_execs = 0
    /\ execRaised = None
    /\ ctx_value = NoCall

ContextNext ==
    \/ VcQuery /\ UNCHANGED <<codecVars, commsVars, serverVars, bcVars>>
    \/ VcServe /\ UNCHANGED <<codecVars, commsVars, bcVars>>
    \/ VcPoll /\ UNCHANGED <<codecVars, commsVars, serverVars, bcVars>>
    \/ VcTimeout /\ UNCHANGED <<codecVars, commsVars, serverVars, bcVars>>
    \/ \E code \in AppSources \cup {ImportSource} :
          CtxExec(code) /\ UNCHANGED <<codecVars, commsVars, serverVars,
                                       bcVars>>
    \/ CtxExecPoll /\ UNCHANGED <<codecVars, commsVars, serverVars, bcVars>>
    \/ CtxExecTimeout /\ UNCHANGED <<codecVars, commsVars, serverVars,
                                      bcVars>>

SpecContext == ContextInit /\ [][ContextNext]_vars

\* The frames passed on to the client that it has received so far.
CtxConsumed == SubSeq(ctx_served, 1, Len(ctx_served) - Len(ctx_res_port))

\* The client receives the frames in the order they were dispatched: it
\* hands the text of every STDOUT frame to handle_stdout and returns every
\* other frame as a response, one after the other.
ReceivedInOrder ==
    /\ Len(ctx_log) = Len(CtxConsumed)
    /\ \A i \in 1..Len(ctx_log) :
          IF EventType(CtxConsumed[i].frame) = STDOUT
          THEN ctx_log[i] =
                   [kind |-> "stdout",
                    data |-> b64decode(
                                 ResponsePayload(CtxConsumed[i].frame)).bytes]
          ELSE ctx_log[i] =
                   [kind |-> "response",
                    data |-> SliceFrom(EventData(CtxConsumed[i].frame), 2)]

\* C12: for every request handled by OnSysEx the STDOUT frames carrying what
\* the request printed are sent before its OK/ERR response frame and are
\* addressed to the requesting client, and the client receives them before
\* that response.
C12_StdoutFirst ==
    /\ StdoutBeforeResponse
    /\ ReceivedInOrder
    /\ \A i, j \in 1..Len(ctx_served) :
          (/\ ctx_served[i].request = ctx_served[j].request
           /\ EventType(ctx_served[i].frame) = STDOUT
           /\ EventType(ctx_served[j].frame) # STDOUT) => i < j

\* The client has received the text of print(x), "1" and a newline, and
\* then the response to that request.
C12_Witness ==
    \E i \in 1..(Len(ctx_log) - 1) :
        /\ ctx_log[i] = [kind |-> "stdout", data |-> <<49, 10>>]
        /\ ctx_log[i + 1] = [kind |-> "response", data |-> <<EXEC, OK>>]
        /\ ctx_served[i].request = ctx_served[i + 1].request

\* The client has sent a request for execution or evaluation.
ExecOrEvalSent ==
    \E i \in 1..Len(ctx_sent) : EventType(ctx_sent[i]) \in {EXEC, EVAL}

\* C11: the client sends no EXEC or EVAL frame unless it is connected and
\* its version check has completed without raising; once version_check has
\* raised FlapiVersionError no EXEC or EVAL frame is sent.
C11_ExecAfterVersionCheck ==
    ExecOrEvalSent =>
        /\ ctx_client_id # NoId
        /\ vcState \in {"done", "exec", "ready"}
        /\ vcRaised = None

(***************************************************************************)
(* The session: two client processes share the request port; what the      *)
(* response script writes reaches the response port of every process.      *)
(***************************************************************************)
\* Operations the processes call, all together.
MaxOps == 3

\* Exit codes given to goodbye.
ExitCodes == {0}

\* Ticks of the clock in the window of receive_message (consts.TIMEOUT_DURATION
\* is 0.1 s; the model counts the window in ticks).
TIMEOUT_DURATION == 2

\* The state of process p after its operation ended with exception e (None:
\* it returned).  FlapiClientExit is a SystemExit: the process unwinds.
BcEnd(p, e) ==
    /\ bc_pc' = [bc_pc EXCEPT ![p] = IF e = "FlapiClientExit"
                                     THEN "exited" ELSE "ready"]
    /\ bc_raised' = [bc_raised EXCEPT ![p] = e]

\* An operation of process p begins: nothing raised, nothing seen, and the
\* clock at zero.
BcBegin(p, op) ==
    /\ bc_last' = [bc_last EXCEPT ![p] = op]
    /\ bc_detail' = [bc_detail EXCEPT ![p] = <<>>]
    /\ bc_seen' = [bc_seen EXCEPT ![p] = NoCall]
    /\ bc_timer' = [bc_timer EXCEPT ![p] = 0]
    /\ bc_waited' = [bc_waited EXCEPT ![p] = 0]

\* random.sample(range(1, 128), ...) that draws with replacement.
Candidates_with_replacement(tried) == ClientIds

\* random.sample(range(1, 128), 127): the candidates a pass has not drawn
\* yet (ClientIds stands for range(1, 128)).
Candidates(tried) == ClientIds \ tried

\* hello(timeout): the first pass begins and its first candidate is tried.
BcHello(p, c, timeout) ==
    /\ bc_pc[p] = "ready"
    /\ bc_ops < MaxOps
    /\ bc_ops' = bc_ops + 1
    /\ BcBegin(p, "hello")
    /\ c \in Candidates({})
    /\ bc_raised' = [bc_raised EXCEPT ![p] = None]
    /\ bc_pc' = [bc_pc EXCEPT ![p] = "hello"]
    /\ bc_client_id' = [bc_client_id EXCEPT ![p] = c]
    /\ bc_tried' = [bc_tried EXCEPT ![p] = {c}]
    /\ bc_timeout' = [bc_timeout EXCEPT ![p] = timeout]
    /\ bc_elapsed' = [bc_elapsed EXCEPT ![p] = 0]
    /\ bc_passes' = [bc_passes EXCEPT ![p] = << <<c>> >>]
    /\ req_port' = Append(req_port, send_message(c, CLIENT_HELLO, <<>>))
    /\ UNCHANGED <<bc_res_port, bc_stdout, bc_arrived>>

\* hello(): no response for the candidate within TIMEOUT_DURATION.  The
\* next candidate of the pass is tried; when the pass is over, a new pass
\* begins unless the timeout has elapsed, and then FlapiConnectionError is
\* raised.
BcHelloTimeout(p) ==
    /\ bc_pc[p] = "hello"
    /\ bc_res_port[p] = <<>>
    /\ bc_elapsed' = [bc_elapsed EXCEPT ![p] = @ + TIMEOUT_DURATION]
    /\ IF bc_tried[p] # ClientIds
       THEN \E c \in Candidates(bc_tried[p]) :
               /\ bc_client_id' = [bc_client_id EXCEPT ![p] = c]
               /\ bc_tried' = [bc_tried EXCEPT ![p] = @ \cup {c}]
               /\ bc_passes' = [bc_passes EXCEPT ![p] =
                                   [@ EXCEPT ![Len(@)] = Append(@, c)]]
               /\ req_port' = Append(req_port,
                                     send_message(c, CLIENT_HELLO, <<>>))
               /\ UNCHANGED <<bc_pc, bc_raised>>
       ELSE IF bc_elapsed'[p] <= bc_timeout[p]
       THEN \E c \in Candidates({}) :
               /\ bc_client_id' = [bc_client_id EXCEPT ![p] = c]
               /\ bc_tried' = [bc_tried EXCEPT ![p] = {c}]
               /\ bc_passes' = [bc_passes EXCEPT ![p] = Append(@, <<c>>)]
               /\ req_port' = Append(req_port,
                                     send_message(c, CLIENT_HELLO, <<>>))
               /\ UNCHANGED <<bc_pc, bc_raised>>
       ELSE /\ BcEnd(p, "FlapiConnectionError")
            /\ UNCHANGED <<bc_client_id, bc_tried, req_port, bc_passes>>
    /\ UNCHANGED <<bc_last, bc_res_port, bc_ops, bc_detail, bc_stdout,
                   bc_seen, bc_timer, bc_waited, bc_arrived, bc_timeout>>

\* The client_id property raises without an id; otherwise the request of
\* the operation is sent and the operation waits for its response.
BcRequest(p, op, message_type, additional_data) ==
    /\ bc_pc[p] = "ready"
    /\ bc_ops < MaxOps
    /\ bc_ops' = bc_ops + 1
    /\ BcBegin(p, op)
    /\ IF bc_client_id[p] = NoId
       THEN /\ bc_raised' = [bc_raised EXCEPT ![p] = "RuntimeError"]
            /\ UNCHANGED <<bc_pc, req_port>>
       ELSE /\ bc_raised' = [bc_raised EXCEPT ![p] = None]
            /\ bc_pc' = [bc_pc EXCEPT ![p] = op]
            /\ req_port' = Append(req_port,
                              send_message(bc_client_id[p], message_type,
                                           additional_data))
    /\ UNCHANGED <<bc_client_id, bc_tried, bc_res_port, bc_stdout,
                   bc_arrived, helloVars>>

\* goodbye(code)
BcGoodbye(p, code) ==
    BcRequest(p, "goodbye", CLIENT_GOODBYE, b64encode(FormatInt(code)))

\* exec(code)
BcExec(p, code) == BcRequest(p, "exec", EXEC, b64encode(code))

\* version_query()
BcVersionQuery(p) == BcRequest(p, "version_query", VERSION_QUERY, <<>>)

\* goodbye(): no response in time, FlapiTimeoutError leaves goodbye.
BcGoodbyeTimeout(p) ==
    /\ bc_pc[p] = "goodbye"
    /\ bc_res_port[p] = <<>>
    /\ BcEnd(p, "FlapiTimeoutError")
    /\ UNCHANGED <<bc_client_id, bc_tried, bc_last, bc_res_port, bc_ops,
                   req_port, bc_detail, bc_stdout, bc_seen, bc_timer,
                   bc_waited, bc_arrived, helloVars>>

\* The operations that wait for a response, and the type each expects.
Waiting == {"hello", "goodbye", "exec", "version_query"}

ExpectedType(op) ==
    CASE op = "hello" -> CLIENT_HELLO
      [] op = "goodbye" -> CLIENT_GOODBYE
      [] op = "exec" -> EXEC
      [] op = "version_query" -> VERSION_QUERY

\* __receive_and_dispatch, one message that receive_message returns within
\* its window, and what the operation does with the message returned to
\* it.  When the loop goes round, receive_message is called anew.
BcReceive(p) ==
    /\ bc_pc[p] \in Waiting
    /\ bc_res_port[p] # <<>>
    /\ bc_timer[p] < TIMEOUT_DURATION
    /\ bc_res_port' = [bc_res_port EXCEPT ![p] = Tail(@)]
    /\ bc_timer' = [bc_timer EXCEPT ![p] = 0]
    /\ LET got == receive_and_dispatch(Head(bc_res_port[p]),
                                       bc_client_id[p])
           checked == bc_assert_response_is_ok(got.msg,
                                               ExpectedType(bc_pc[p]))
       IN  /\ bc_seen' = [bc_seen EXCEPT ![p] =
                             [raw |-> Head(bc_res_port[p]),
                              kind |-> got.kind]]
           /\ bc_stdout' = IF got.kind = "stdout"
                           THEN [bc_stdout EXCEPT ![p] =
                                    stdout_callback(@, got.detail)]
                           ELSE bc_stdout
           /\ IF got.kind = "enquiry"
              THEN /\ req_port' = Append(req_port,
                                         MidoSysex(DEVICE_ENQUIRY_RESPONSE))
                   /\ UNCHANGED <<bc_pc, bc_raised, bc_client_id,
                                  bc_detail>>
              ELSE /\ UNCHANGED req_port
                   /\ IF got.kind \in {"continue", "stdout"}
                      THEN UNCHANGED <<bc_pc, bc_raised, bc_client_id,
                                       bc_detail>>
                      ELSE IF got.kind = "raise"
                      THEN /\ BcEnd(p, got.error)
                           /\ bc_detail' = [bc_detail EXCEPT ![p] =
                                                got.detail]
                           /\ UNCHANGED bc_client_id
                      ELSE /\ BcEnd(p, checked.error)
                           /\ bc_detail' = [bc_detail EXCEPT ![p] =
                                                checked.detail]
                           /\ bc_client_id' =
                                 IF bc_pc[p] = "goodbye"
                                    /\ checked.error = None
                                 THEN [bc_client_id EXCEPT ![p] = NoId]
                                 ELSE bc_client_id
    /\ UNCHANGED <<bc_tried, bc_last, bc_ops, bc_waited, bc_arrived,
                   helloVars>>

\* The request script handles a request; the response script passes its
\* frames on to every open response port.
SessionServe ==
    /\ req_port # <<>>
    /\ OnSysEx(Head(req_port))
    /\ req_port' = Tail(req_port)
    /\ bc_res_port' = [p \in Procs |->
                          IF bc_pc[p] = "exited" THEN bc_res_port[p]
                          ELSE bc_res_port[p] \o Forwarded(dispatched')]
    /\ UNCHANGED <<bc_client_id, bc_pc, bc_tried, bc_last, bc_raised,
                   bc_ops, bc_detail, bc_stdout, bc_seen, bc_timer,
                   bc_waited, bc_arrived, helloVars>>

Next ==
    \/ \E p \in Procs, c \in ClientIds :
          BcHello(p, c, 0) /\ UNCHANGED <<codecVars, commsVars, serverVars,
                                       ctxVars>>
    \/ \E p \in Procs :
          BcHelloTimeout(p) /\ UNCHANGED <<codecVars, commsVars, serverVars,
                                           ctxVars>>
    \/ \E p \in Procs, code \in ExitCodes :
          BcGoodbye(p, code) /\ UNCHANGED <<codecVars, commsVars,
                                            serverVars, ctxVars>>
    \/ \E p \in Procs :
          BcGoodbyeTimeout(p) /\ UNCHANGED <<codecVars, commsVars,
                                             serverVars, ctxVars>>
    \/ \E p \in Procs :
          BcReceive(p) /\ UNCHANGED <<codecVars, commsVars, serverVars,
                                      ctxVars>>
    \/ SessionServe /\ UNCHANGED <<codecVars, commsVars, ctxVars>>

Spec == Init /\ [][Next]_vars

\* hello() has returned to process p and nothing was called since.
Connected(p) ==
    bc_pc[p] = "ready" /\ bc_last[p] = "hello" /\ bc_raised[p] = None

\* C5: of two processes that say hello with the same candidate id at most
\* one ends connected with it: no two connected processes hold the same
\* client id.
C5_HelloExclusive ==
    \A p, q \in Procs :
        (p # q /\ Connected(p) /\ Connected(q)) =>
            bc_client_id[p] # bc_client_id[q]

\* goodbye() of process p has ended on the server's CLIENT_GOODBYE reply:
\* it returned, or the reply unwound it as the exit signal.
GoodbyeConfirmed(p) ==
    /\ bc_last[p] = "goodbye"
    /\ bc_pc[p] \in {"ready", "exited"}
    /\ bc_raised[p] \in {None, "FlapiClientExit"}

\* C9: once goodbye() has ended on the server's CLIENT_GOODBYE reply the
\* client is disconnected: it holds no client id (is_connected is false).
C9_GoodbyeDisconnects ==
    \A p \in Procs : GoodbyeConfirmed(p) => bc_client_id[p] = NoId

\* No frame is in flight on either channel and no process is inside a call.
Quiescent ==
    /\ req_port = <<>>
    /\ \A p \in Procs : bc_res_port[p] = <<>> /\ bc_pc[p] \notin Waiting

\* The ids held by processes that are connected (is_connected is true and
\* the process has not exited).
HeldIds ==
    { bc_client_id[p] : p \in { q \in Procs : bc_pc[q] # "exited"
                                              /\ bc_client_id[q] # NoId } }

\* C32: in every quiescent state the ids of the server's sessions are the
\* ids held by connected clients; an acceptance that arrives after the wait
\* for its candidate timed out leaves no session without an owner.
C32_SessionsHaveOwners ==
    Quiescent => DOMAIN connected_clients = HeldIds

(***************************************************************************)
(* The dispatcher of FlapiBaseClient under outside traffic.  Process A is  *)
(* connected as client 1, its scope binds x and it has one operation of    *)
(* its budget left: exec, version_query or goodbye.  While it waits,       *)
(* frames of other senders arrive on its response port, and echoes arrive  *)
(* at the request script.  SpecDispatch leaves time out; SpecTimeout       *)
(* counts it in ticks, a call of receive_message lasting TIMEOUT_DURATION  *)
(* ticks.  (In the session specification above a wait may time out         *)
(* whenever the response port is empty.)                                   *)
(***************************************************************************)
\* Frames from outside the session that arrive during one behaviour.
MaxArrived == 2

\* The exit code the outside CLIENT_GOODBYE frames carry.
OutsideExitCode == 7

\* A frame as it arrives on a response port.
WireFrame(origin, client_id, msg_type, status, payload) ==
    MidoSysex(SYSEX_HEADER \o <<origin, client_id, msg_type, status>>
              \o payload)

\* The text "x" of the outside STDOUT frames and FAIL diagnostics.
OutsideText == <<120>>

\* The frames that arrive from outside: echoes of client frames, frames for
\* client 2, broadcasts, frames for client 1, and foreign MIDI messages.
OutsideFrames ==
    { WireFrame(o, 1, STDOUT, OK, b64encode(OutsideText)) :
        o \in {CLIENT, INTERNAL} }
    \cup { WireFrame(CLIENT, 0, SERVER_GOODBYE, OK, <<>>),
           WireFrame(CLIENT, 1, CLIENT_GOODBYE, OK,
                     b64encode(FormatInt(OutsideExitCode))),
           WireFrame(CLIENT, 1, EXEC, OK, <<>>) }
    \cup { WireFrame(SERVER, c, STDOUT, OK, b64encode(OutsideText)) :
             c \in {0, 1, 2} }
    \cup { WireFrame(SERVER, c, CLIENT_GOODBYE, OK,
                     b64encode(FormatInt(OutsideExitCode))) : c \in {1, 2} }
    \cup { WireFrame(SERVER, c, SERVER_GOODBYE, OK, <<>>) : c \in {0, 2} }
    \cup { WireFrame(SERVER, c, EXEC, OK, <<>>) : c \in {0, 1, 2} }
    \cup { WireFrame(SERVER, 1, EXEC, ERR, b64encode(ExceptionRepr(n))) :
             n \in ExceptionNames }
    \cup { WireFrame(SERVER, 1, t, FAIL, b64encode(OutsideText)) :
             t \in {EXEC, VERSION_QUERY} }
    \cup { WireFrame(SERVER, 1, VERSION_QUERY, OK, VERSION),
           MidoSysex(<<1, 2>>),
           MidoSysex(DEVICE_ENQUIRY_MESSAGE) }

\* Frames of other origins that the MIDI bus echoes to the request script.
EchoEvents ==
    { WireFrame(SERVER, 1, EXEC, OK, <<>>),
      WireFrame(INTERNAL, 2, CLIENT_HELLO, OK, <<>>) }

DispatchInit ==
    /\ CodecInit /\ CommsInit /\ CtxInit /\ CapoutInit
    /\ connected_clients =
          DictPut(EmptyDict, 1, DictPut(make_client_globals(1), 120, 1))
    /\ solo = connected_clients
    /\ dispatched = <<>>
    /\ serverErr = None
    /\ lastEvent = <<>>
    /\ before = EmptyDict
    /\ server_version = VERSION
    /\ req_port = <<>>
    /\ bc_client_id = [p \in Procs |-> IF p = "A" THEN 1 ELSE NoId]
    /\ bc_pc = [p \in Procs |-> IF p = "A" THEN "ready" ELSE "exited"]
    /\ bc_tried = [p \in Procs |-> IF p = "A" THEN {1} ELSE {}]
    /\ bc_last = [p \in Procs |-> IF p = "A" THEN "hello" ELSE "none"]
    /\ bc_raised = [p \in Procs |-> None]
    /\ bc_res_port = [p \in Procs |-> <<>>]
    /\ bc_ops = MaxOps - 1
    /\ bc_detail = [p \in Procs |-> <<>>]
    /\ bc_stdout = [p \in Procs |-> <<>>]
    /\ bc_seen = [p \in Procs |-> NoCall]
    /\ bc_timer = [p \in Procs |-> 0]
    /\ bc_waited = [p \in Procs |-> 0]
    /\ bc_arrived = 0
    /\ bc_timeout = [p \in Procs |-> 0]
    /\ bc_elapsed = [p \in Procs |-> 0]
    /\ bc_passes = [p \in Procs |-> <<>>]

\* A frame from outside arrives on the response port of the waiting
\* process p.
BcArrive(p, m) ==
    /\ bc_pc[p] \in Waiting
    /\ bc_res_port[p] = <<>>
    /\ bc_arrived < MaxArrived
    /\ bc_arrived' = bc_arrived + 1
    /\ bc_res_port' = [bc_res_port EXCEPT ![p] = Append(@, m)]
    /\ UNCHANGED <<bc_client_id, bc_pc, bc_tried, bc_last, bc_raised,
                   bc_ops, bc_detail, bc_stdout, bc_seen, bc_timer,
                   bc_waited, req_port, helloVars>>

\* An echo reaches the request script, out of the order of the requests.
BusEcho(e) ==
    /\ bc_arrived < MaxArrived
    /\ bc_arrived' = bc_arrived + 1
    /\ OnSysEx(e)
    /\ bc_res_port' = [p \in Procs |->
                          IF bc_pc[p] = "exited" THEN bc_res_port[p]
                          ELSE bc_res_port[p] \o Forwarded(dispatched')]
    /\ UNCHANGED <<bc_client_id, bc_pc, bc_tried, bc_last, bc_raised,
                   bc_ops, bc_detail, bc_stdout, bc_seen, bc_timer,
                   bc_waited, req_port, helloVars>>

\* receive_message busy waits: a tick passes with nothing on the port.
BcTick(p) ==
    /\ bc_pc[p] \in Waiting
    /\ bc_res_port[p] = <<>>
    /\ bc_timer[p] < TIMEOUT_DURATION
    /\ bc_timer' = [bc_timer EXCEPT ![p] = @ + 1]
    /\ bc_waited' = [bc_waited EXCEPT ![p] =
                        IF @ <= TIMEOUT_DURATION THEN @ + 1 ELSE @]
    /\ UNCHANGED <<bc_client_id, bc_pc, bc_tried, bc_last, bc_raised,
                   bc_ops, bc_detail, bc_stdout, bc_seen, bc_res_port,
                   bc_arrived, req_port, helloVars>>

\* The window of the running receive_message is over: FlapiTimeoutError
\* leaves exec, version_query and goodbye.
BcTimeout(p) ==
    /\ bc_pc[p] \in Waiting \ {"hello"}
    /\ bc_timer[p] = TIMEOUT_DURATION
    /\ BcEnd(p, "FlapiTimeoutError")
    /\ UNCHANGED <<bc_client_id, bc_tried, bc_last, bc_res_port, bc_ops,
                   req_port, bc_detail, bc_stdout, bc_seen, bc_timer,
                   bc_waited, bc_arrived, helloVars>>

DispatchNext ==
    \/ \E p \in Procs, code \in AppSources :
          BcExec(p, code) /\ UNCHANGED <<codecVars, commsVars, serverVars,
                                         ctxVars>>
    \/ \E p \in Procs :
          BcVersionQuery(p) /\ UNCHANGED <<codecVars, commsVars,
                                           serverVars, ctxVars>>
    \/ \E p \in Procs, code \in ExitCodes :
          BcGoodbye(p, code) /\ UNCHANGED <<codecVars, commsVars,
                                            serverVars, ctxVars>>
    \/ \E p \in Procs :
          BcReceive(p) /\ UNCHANGED <<codecVars, commsVars, serverVars,
                                      ctxVars>>
    \/ \E p \in Procs, m \in OutsideFrames :
          BcArrive(p, m) /\ UNCHANGED <<codecVars, commsVars, serverVars,
                                        ctxVars>>
    \/ \E e \in EchoEvents :
          BusEcho(e) /\ UNCHANGED <<codecVars, commsVars, ctxVars>>
    \/ SessionServe /\ UNCHANGED <<codecVars, commsVars, ctxVars>>

SpecDispatch == DispatchInit /\ [][DispatchNext]_vars

\* The outside frames the dispatcher passes over or relays.
DiscardedFrames ==
    { WireFrame(CLIENT, 1, EXEC, OK, <<>>),
      WireFrame(SERVER, 2, EXEC, OK, <<>>),
      WireFrame(SERVER, 1, STDOUT, OK, b64encode(OutsideText)),
      MidoSysex(DEVICE_ENQUIRY_MESSAGE) }

TimeoutInit == DispatchInit

TimeoutNext ==
    \/ \E p \in Procs, code \in AppSources :
          BcExec(p, code) /\ UNCHANGED <<codecVars, commsVars, serverVars,
                                         ctxVars>>
    \/ \E p \in Procs :
          BcVersionQuery(p) /\ UNCHANGED <<codecVars, commsVars,
                                           serverVars, ctxVars>>
    \/ \E p \in Procs, code \in ExitCodes :
          BcGoodbye(p, code) /\ UNCHANGED <<codecVars, commsVars,
                                            serverVars, ctxVars>>
    \/ \E p \in Procs :
          BcReceive(p) /\ UNCHANGED <<codecVars, commsVars, serverVars,
                                      ctxVars>>
    \/ \E p \in Procs, m \in DiscardedFrames :
          BcArrive(p, m) /\ UNCHANGED <<codecVars, commsVars, serverVars,
                                        ctxVars>>
    \/ \E p \in Procs :
          BcTick(p) /\ UNCHANGED <<codecVars, commsVars, serverVars,
                                   ctxVars>>
    \/ \E p \in Procs :
          BcTimeout(p) /\ UNCHANGED <<codecVars, commsVars, serverVars,
                                      ctxVars>>
    \/ SessionServe /\ UNCHANGED <<codecVars, commsVars, ctxVars>>

SpecTimeout == TimeoutInit /\ [][TimeoutNext]_vars

\* Process p takes the message at the head of its response port.
Takes(p) ==
    /\ bc_pc[p] \in Waiting
    /\ bc_res_port[p] # <<>>
    /\ bc_res_port'[p] = Tail(bc_res_port[p])

\* The message is a frame of the protocol: marker, origin, client id, type
\* and status.
IsFrame(raw) ==
    /\ EventHeader(raw) = SYSEX_HEADER
    /\ Len(EventData(raw)) >= 4
    /\ EventOrigin(raw) \in MessageOrigin
    /\ At(EventData(raw), 3) \in MessageStatus

FrameStatus(raw) == At(EventData(raw), 3)
FramePayload(raw) == SliceFrom(EventData(raw), 4)

\* The step leaves the call of p as it was: still waiting, nothing raised,
\* nothing on the console.
NoEffect(p) ==
    /\ bc_pc'[p] = bc_pc[p]
    /\ bc_raised'[p] = bc_raised[p]
    /\ bc_detail'[p] = bc_detail[p]
    /\ bc_stdout'[p] = bc_stdout[p]
    /\ bc_client_id'[p] = bc_client_id[p]

\* The request script has seen an event of the protocol that no client
\* sent.
ServerSawLoopback ==
    /\ EventHeader(lastEvent) = SYSEX_HEADER
    /\ Len(EventData(lastEvent)) >= 3
    /\ EventOrigin(lastEvent) # CLIENT

C15_BroadcastTaken ==
    /\ bc_seen["A"] # NoCall
    /\ IsFrame(bc_seen["A"].raw)
    /\ EventOrigin(bc_seen["A"].raw) = SERVER
    /\ EventClientId(bc_seen["A"].raw) = 0
    /\ bc_raised["A"] = "FlapiServerExit"

\* The frame is a STDOUT frame that the dispatcher of client own_id accepts.
AcceptedStdout(m, own_id) ==
    /\ IsFrame(m)
    /\ EventOrigin(m) = SERVER
    /\ EventClientId(m) \in {0, own_id}
    /\ EventType(m) = STDOUT
    /\ b64decode(FramePayload(m)).error = None
    /\ Utf8Decode(b64decode(FramePayload(m)).bytes) = None

Accepted(m, own_id) ==
    /\ IsFrame(m)
    /\ EventOrigin(m) = SERVER
    /\ EventClientId(m) \in {0, own_id}

\* The payload is the base64 of a decimal number.
CarriesExitCode(m) ==
    /\ b64decode(FramePayload(m)).error = None
    /\ ParseInt(b64decode(FramePayload(m)).bytes).error = None

C17_ServerExit ==
    /\ bc_last["A"] = "version_query"
    /\ bc_pc["A"] = "ready"
    /\ bc_raised["A"] = "FlapiServerExit"

\* The last message process p took does not carry the marker of the
\* protocol.
SawForeign(p) ==
    /\ bc_seen[p] # NoCall
    /\ EventHeader(bc_seen[p].raw) # SYSEX_HEADER

\* C18: a message without the marker of the protocol is swallowed: the call
\* that took it has raised nothing and is still waiting for its response.
C18_ForeignSwallowed ==
    \A p \in Procs :
        SawForeign(p) => (bc_raised[p] = None /\ bc_pc[p] \in Waiting)

\* C19: a call that has been given nothing but frames the dispatcher
\* passes over or relays is never waiting later than TIMEOUT_DURATION after
\* it began to wait: by then it has raised FlapiTimeoutError.
C19_TimeoutBound ==
    \A p \in Procs :
        bc_pc[p] \in Waiting => bc_waited[p] <= TIMEOUT_DURATION

\* The frame is one the dispatcher of client own_id returns to the call.
Returned(m, own_id) ==
    /\ Accepted(m, own_id)
    /\ EventType(m) \notin {STDOUT, CLIENT_GOODBYE, SERVER_GOODBYE}

C20_Mismatch ==
    /\ bc_last["A"] = "version_query"
    /\ bc_raised["A"] = "FlapiClientError"
    /\ bc_seen["A"] # NoCall
    /\ IsFrame(bc_seen["A"].raw)
    /\ FrameStatus(bc_seen["A"].raw) = FAIL

\* An exec has raised FlapiServerError with the text of its FAIL response.
C20_Fail ==
    /\ bc_last["A"] = "exec"
    /\ bc_raised["A"] = "FlapiServerError"
    /\ bc_detail["A"] = OutsideText


\* C28: once the wait of a connected client has ended with FlapiServerExit,
\* on a SERVER_GOODBYE frame, the client is disconnected: is_connected is
\* false, it holds no client id, and nothing more is sent under the old
\* id.
C28_ServerExitReleases ==
    \A p \in Procs :
        (bc_pc[p] = "ready" /\ bc_raised[p] = "FlapiServerExit") =>
            bc_client_id[p] = NoId

(***************************************************************************)
(* hello(timeout) on its own: process A says hello to a server on which    *)
(* any of the candidate ids may be in use, with the default timeout or one *)
(* that lasts a pass over all candidates.                                  *)
(***************************************************************************)
\* The timeouts given to hello, in ticks: the default, and the time one
\* pass takes when no candidate is answered.
HelloTimeouts == {0, Cardinality(ClientIds) * TIMEOUT_DURATION}

HelloInit ==
    /\ CodecInit /\ CommsInit /\ CtxInit /\ CapoutInit
    /\ connected_clients \in
          { [c \in live |-> make_client_globals(c)] : live \in SUBSET ClientIds }
    /\ solo = connected_clients
    /\ dispatched = <<>>
    /\ serverErr = None
    /\ lastEvent = <<>>
    /\ before = EmptyDict
    /\ server_version = VERSION
    /\ req_port = <<>>
    /\ bc_client_id = [p \in Procs |-> NoId]
    /\ bc_pc = [p \in Procs |-> IF p = "A" THEN "ready" ELSE "exited"]
    /\ bc_tried = [p \in Procs |-> {}]
    /\ bc_last = [p \in Procs |-> "none"]
    /\ bc_raised = [p \in Procs |-> None]
    /\ bc_res_port = [p \in Procs |-> <<>>]
    /\ bc_ops = MaxOps - 1
    /\ bc_detail = [p \in Procs |-> <<>>]
    /\ bc_stdout = [p \in Procs |-> <<>>]
    /\ bc_seen = [p \in Procs |-> NoCall]
    /\ bc_timer = [p \in Procs |-> 0]
    /\ bc_waited = [p \in Procs |-> 0]
    /\ bc_arrived = 0
    /\ bc_timeout = [p \in Procs |-> 0]
    /\ bc_elapsed = [p \in Procs |-> 0]
    /\ bc_passes = [p \in Procs |-> <<>>]

HelloNext ==
    \/ \E p \in Procs, c \in ClientIds, timeout \in HelloTimeouts :
          BcHello(p, c, timeout) /\ UNCHANGED <<codecVars, commsVars,
                                                serverVars, ctxVars>>
    \/ \E p \in Procs :
          BcHelloTimeout(p) /\ UNCHANGED <<codecVars, commsVars, serverVars,
                                           ctxVars>>
    \/ \E p \in Procs :
          BcReceive(p) /\ UNCHANGED <<codecVars, commsVars, serverVars,
                                      ctxVars>>
    \/ SessionServe /\ UNCHANGED <<codecVars, commsVars, ctxVars>>

SpecHello == HelloInit /\ [][HelloNext]_vars

\* No value occurs twice in the sequence.
NoRepeat(seq) ==
    \A i, j \in DOMAIN seq : i # j => seq[i] # seq[j]

\* The candidate hello is trying, or tried last.
LastCandidate(p) ==
    LET pass == bc_passes[p][Len(bc_passes[p])] IN pass[Len(pass)]

\* The last message process p took is a CLIENT_HELLO OK of the server for
\* client c or for all clients.
TookHelloOk(p, c) ==
    /\ bc_seen[p] # NoCall
    /\ IsFrame(bc_seen[p].raw)
    /\ EventOrigin(bc_seen[p].raw) = SERVER
    /\ EventClientId(bc_seen[p].raw) \in {0, c}
    /\ EventType(bc_seen[p].raw) = CLIENT_HELLO
    /\ FrameStatus(bc_seen[p].raw) = OK

C21_TwoPasses ==
    /\ bc_raised["A"] = "FlapiConnectionError"
    /\ Len(bc_passes["A"]) = 2

\* C31: when hello() has ended without an acceptance, with
\* FlapiConnectionError or an error raised on a response, the client is
\* disconnected: is_connected is false, it holds none of the candidate ids
\* it tried.
C31_FailedHelloDisconnected ==
    \A p \in Procs :
        (bc_last[p] = "hello" /\ bc_pc[p] = "ready" /\ bc_raised[p] # None)
            => bc_client_id[p] = NoId

(***************************************************************************)
(* The sessions of the request script: hello, goodbye and exec requests    *)
(* arrive for the client ids 0, 1 and 2, among them exec of "exit(7)".     *)
(***************************************************************************)
\* The client ids the requests carry: the broadcast id and two others.
SessionIds == {0} \cup ClientIds

\* "exit(7)" and "x=1"
SessionSources ==
    { <<101, 120, 105, 116, 40, 55, 41>>, <<120, 61, 49>> }

SessionEvents ==
    UNION { { ClientRequest(c, CLIENT_HELLO, <<>>),
              ClientRequest(c, CLIENT_GOODBYE, b64encode(<<48>>)) }
            \cup { ClientRequest(c, EXEC, b64encode(src)) :
                     src \in SessionSources } : c \in SessionIds }

SessionsInit == Init

SessionsNext ==
    \E e \in SessionEvents : OnSysEx(e)
        /\ UNCHANGED <<codecVars, commsVars, req_port, ctxVars, bcVars>>

SpecSessions == SessionsInit /\ [][SessionsNext]_vars

\* C22: a client to which a CLIENT_GOODBYE frame has just been sent has no
\* session any more: its id is free for a new hello.
C22_GoodbyeReleases ==
    \A i \in DOMAIN dispatched :
        EventType(dispatched[i]) = CLIENT_GOODBYE =>
            EventClientId(dispatched[i]) \notin DOMAIN connected_clients

\* C23: whatever CLIENT_HELLO frames have arrived, 0 is not the id of a
\* session: it is no key of connected_clients, and no client process is
\* connected holding it.
C23_ZeroNeverClaimed ==
    /\ 0 \notin DOMAIN connected_clients
    /\ \A p \in Procs : Connected(p) => bc_client_id[p] # 0

(***************************************************************************)
(* fl_exec and fl_eval of the context based client, end to end: the client *)
(* is connected as client 1, calls one after the other, and the request    *)
(* script answers each request when the host gets to it.                   *)
(***************************************************************************)
\* pickle.loads of what PickleInt and PickleException write.
pickle_loads(pickled) ==
    IF Len(pickled) = 5 /\ pickled[1] = 128 /\ pickled[2] = 4
       /\ pickled[5] = 46 /\ pickled[3] = 75
    THEN [error |-> None, kind |-> "int", value |-> pickled[4],
          name |-> None]
    ELSE IF Len(pickled) = 5 /\ pickled[1] = 128 /\ pickled[2] = 4
            /\ pickled[5] = 46 /\ pickled[3] = 99
    THEN [error |-> None, kind |-> "exception", value |-> 0,
          name |-> CASE pickled[4] = 1 -> "NameError"
                     [] pickled[4] = 2 -> "KeyError"
                     [] pickled[4] = 3 -> "SyntaxError"
                     [] OTHER -> "Exception"]
    ELSE [error |-> "UnpicklingError", kind |-> "none", value |-> 0,
          name |-> None]

\* decode_python_object
decode_python_object(data) ==
    IF b64decode(data).error # None
    THEN [error |-> b64decode(data).error, kind |-> "none", value |-> 0,
          name |-> None]
    ELSE pickle_loads(b64decode(data).bytes)

\* assert_response_is_ok with the exception `raise decode_python_object(..)`
\* raises for status ERR: the exception the server pickled, or the one
\* decoding raises, or TypeError when what was decoded is no exception.
assert_response_is_ok_raise(msg, expected_msg_type) ==
    IF assert_response_is_ok(msg, expected_msg_type) # "ServerException"
    THEN assert_response_is_ok(msg, expected_msg_type)
    ELSE IF decode_python_object(SliceFrom(msg, 2)).error # None
    THEN decode_python_object(SliceFrom(msg, 2)).error
    ELSE IF decode_python_object(SliceFrom(msg, 2)).kind = "exception"
    THEN decode_python_object(SliceFrom(msg, 2)).name
    ELSE "TypeError"

\* What fl_exec (EXEC) or fl_eval (EVAL) does with the response it has
\* received, msg from the type byte on: the exception raised, or None, and
\* the value returned.
ctx_return(msg, msg_type) ==
    IF assert_response_is_ok_raise(msg, msg_type) # None
    THEN [error |-> assert_response_is_ok_raise(msg, msg_type),
          value |-> NoCall]
    ELSE IF msg_type = EXEC
    THEN [error |-> None, value |-> NoCall]
    ELSE IF decode_python_object(SliceFrom(msg, 2)).error # None
    THEN [error |-> decode_python_object(SliceFrom(msg, 2)).error,
          value |-> NoCall]
    ELSE [error |-> None,
          value |-> [value |-> decode_python_object(SliceFrom(msg, 2))
                                   .value]]

\* The expressions the application evaluates: "x" and "2".
EvalSources == { <<120>>, <<50>> }

\* The type byte of a request the client has sent.
RequestType(request) == EventType(request)

\* fl_exec(code) / fl_eval(expression): the request is sent.
CtxCall(msg_type, code) ==
    /\ vcState = "ready"
    /\ ctx_execs < MaxCtxExecs
    /\ ctx_client_id # NoId
    /\ vcState' = "call"
    /\ execRaised' = None
    /\ ctx_value' = NoCall
    /\ ctx_execs' = ctx_execs + 1
    /\ req_port' = Append(req_port,
                          ClientRequest(ctx_client_id, msg_type,
                                        b64encode(code)))
    /\ ctx_sent' = Append(ctx_sent,
                          ClientRequest(ctx_client_id, msg_type,
                                        b64encode(code)))
    /\ UNCHANGED <<client_version, ctx_client_id, ctx_res_port, vcRaised,
                   ctx_log, ctx_served>>

\* receive_message / poll_for_message, one message, then
\* assert_response_is_ok for the type of the running call and, for fl_eval,
\* decode_python_object of the rest.
CtxCallPoll ==
    /\ vcState = "call"
    /\ ctx_res_port # <<>>
    /\ ctx_res_port' = Tail(ctx_res_port)
    /\ ctx_log' = Append(ctx_log,
                         CtxLogEntry(SliceToLast(Head(ctx_res_port), 1),
                                     ctx_client_id))
    /\ LET got == handle_received_message(
                      SliceToLast(Head(ctx_res_port), 1), ctx_client_id)
           ret == ctx_return(got.value,
                             RequestType(ctx_sent[Len(ctx_sent)]))
       IN  IF got.kind = "enquiry"
           THEN /\ req_port' = Append(req_port,
                                      MidoSysex(DEVICE_ENQUIRY_RESPONSE))
                /\ UNCHANGED <<vcState, execRaised, ctx_value>>
           ELSE /\ UNCHANGED req_port
                /\ IF got.kind = "None"
                   THEN UNCHANGED <<vcState, execRaised, ctx_value>>
                   ELSE /\ vcState' = "ready"
                        /\ execRaised' = IF got.kind = "raise"
                                         THEN got.error ELSE ret.error
                        /\ ctx_value' = IF got.kind = "raise"
                                        THEN NoCall ELSE ret.value
    /\ UNCHANGED <<client_version, ctx_client_id, vcRaised, ctx_sent,
                   ctx_served, ctx_execs>>

\* receive_message: nothing arrived within TIMEOUT_DURATION.
CtxCallTimeout ==
    /\ vcState = "call"
    /\ ctx_res_port = <<>>
    /\ vcState' = "ready"
    /\ execRaised' = "FlapiTimeoutError"
    /\ UNCHANGED <<client_version, ctx_client_id, ctx_res_port, req_port,
                   vcRaised, ctx_sent, ctx_log, ctx_served, ctx_execs,
                   ctx_value>>

\* The client is connected as client 1 and setup_server has returned.
EvalInit ==
    /\ CodecInit /\ CommsInit /\ BcInit /\ CapoutInit
    /\ connected_clients = DictPut(EmptyDict, 1, make_client_globals(1))
    /\ solo = connected_clients
    /\ dispatched = <<>>
    /\ serverErr = None
    /\ lastEvent = <<>>
    /\ before = EmptyDict
    /\ server_version = VERSION
    /\ req_port = <<>>
    /\ client_version = VERSION
    /\ ctx_client_id = 1
    /\ ctx_res_port = <<>>
    /\ vcState = "ready"
    /\ vcRaised = None
    /\ ctx_sent = <<>>
    /\ ctx_log = <<>>
    /\ ctx_served = <<>>
    /\ ctx_execs = 0
    /\ execRaised = None
    /\ ctx_value = NoCall

EvalNext ==
    \/ \E code \in AppSources :
          CtxCall(EXEC, code) /\ UNCHANGED <<codecVars, commsVars,
                                             serverVars, bcVars>>
    \/ \E code \in EvalSources :
          CtxCall(EVAL, code) /\ UNCHANGED <<codecVars, commsVars,
                                             serverVars, bcVars>>
    \/ VcServe /\ UNCHANGED <<codecVars, commsVars, bcVars>>
    \/ CtxCallPoll /\ UNCHANGED <<codecVars, commsVars, serverVars, bcVars>>
    \/ CtxCallTimeout /\ UNCHANGED <<codecVars, commsVars, serverVars,
                                      bcVars>>

SpecEval == EvalInit /\ [][EvalNext]_vars

\* The last call of fl_exec / fl_eval has ended on a response.
CallReturned ==
    /\ vcState = "ready"
    /\ ctx_sent # <<>>
    /\ execRaised # "FlapiTimeoutError"

\* The response frame the request script produced for the n-th request.
ResponseTo(n) ==
    { i \in DOMAIN ctx_served :
        /\ ctx_served[i].request = n
        /\ EventType(ctx_served[i].frame) # STDOUT }

\* C24: a call of fl_eval(expr) that returns gives the value the server
\* obtained by evaluating expr in the client's scope, and a call of fl_exec
\* or fl_eval whose code raised E on the server raises E: what the call
\* gives is what the response of the server to that very request says, that
\* response carries the client's id and the type of the request, and the
\* value of a literal is the literal.
C24_EndToEnd ==
    CallReturned =>
        /\ \E i \in ResponseTo(Len(ctx_sent)) :
              /\ EventClientId(ctx_served[i].frame) = ctx_client_id
              /\ EventType(ctx_served[i].frame)
                    = RequestType(ctx_sent[Len(ctx_sent)])
              /\ [error |-> execRaised, value |-> ctx_value]
                    = ctx_return(SliceFrom(EventData(ctx_served[i].frame),
                                           2),
                                 RequestType(ctx_sent[Len(ctx_sent)]))
        /\ (/\ ctx_sent[Len(ctx_sent)]
                  = ClientRequest(ctx_client_id, EVAL, b64encode(<<50>>))
            /\ execRaised = None) => ctx_value = [value |-> 2]

(***************************************************************************)
(* The response script on its own: sysex events of every origin arrive at  *)
(* it, and the client, in fl_eval, reads what the script sends.            *)
(***************************************************************************)
\* Frames the response script passes on in one behaviour.
MaxForwarded == 2

\* A frame with another origin byte.
WithOrigin(sysex, origin) ==
    [sysex EXCEPT ![Len(SYSEX_HEADER) + 2] = origin]

\* The events: frames of the request script for the clients 1 and 2, the
\* same with the origins CLIENT and SERVER, an INTERNAL frame whose header
\* is not the protocol's, and the universal device enquiry.
RespondEvents ==
    LET internal == { res_client_hello(1),
                      res_eval(1, OK, PickleInt(2)),
                      res_stdout(1, <<49, 10>>),
                      res_eval(2, OK, PickleInt(1)) }
    IN  internal
        \cup { WithOrigin(res_eval(1, OK, PickleInt(1)), CLIENT),
               WithOrigin(res_eval(1, OK, PickleInt(1)), SERVER),
               [res_eval(1, OK, PickleInt(1)) EXCEPT ![2] = 126],
               MidoSysex(DEVICE_ENQUIRY_MESSAGE) }

\* OnSysEx of the response script for one event; device.midiOutSysex puts
\* the frame on the client's response port.
RespondServe(event) ==
    /\ Len(ctx_served) + Len(RespondOnSysEx(event)) <= MaxForwarded
    /\ lastEvent' = event
    /\ ctx_res_port' = ctx_res_port \o RespondOnSysEx(event)
    /\ ctx_served' = ctx_served
                      \o [i \in 1..Len(RespondOnSysEx(event)) |->
                             [frame |-> RespondOnSysEx(event)[i],
                              request |-> 0]]
    /\ UNCHANGED <<client_version, ctx_client_id, vcState, vcRaised,
                   ctx_sent, ctx_log, ctx_execs, execRaised, ctx_value,
                   req_port, connected_clients, dispatched, serverErr,
                   before, solo, server_version, capout, sys_stdout,
                   capout_during>>

RespondInit == EvalInit

RespondNext ==
    \/ \E event \in RespondEvents :
          RespondServe(event) /\ UNCHANGED <<codecVars, commsVars, bcVars>>
    \/ CtxCall(EVAL, <<50>>) /\ UNCHANGED <<codecVars, commsVars,
                                            serverVars, bcVars>>
    \/ CtxCallPoll /\ UNCHANGED <<codecVars, commsVars, serverVars, bcVars>>
    \/ CtxCallTimeout /\ UNCHANGED <<codecVars, commsVars, serverVars,
                                      bcVars>>

SpecRespond == RespondInit /\ [][RespondNext]_vars

\* The event carries the protocol marker.
HasMarker(sysex) ==
    /\ Len(sysex) >= Len(SYSEX_HEADER) + 1
    /\ SubSeq(sysex, 2, Len(SYSEX_HEADER) + 1) = SYSEX_HEADER

\* The origin byte of a frame with the marker.
Origin(sysex) == sysex[Len(SYSEX_HEADER) + 2]

\* C25: the response script forwards a frame exactly when it carries the
\* protocol marker and its origin is INTERNAL, and what it forwards is that
\* frame with the origin byte SERVER and the client id, type, status and
\* payload as they were; so every frame on a client's response port, and
\* every frame a client has returned or acted on, has the origin SERVER.
C25_RespondForwards ==
    /\ [](/\ \A i \in DOMAIN ctx_res_port : Origin(ctx_res_port[i]) = SERVER
          /\ \A i \in DOMAIN ctx_served :
                Origin(ctx_served[i].frame) = SERVER
          /\ Len(ctx_log) = Len(ctx_served) - Len(ctx_res_port))
    /\ [][(lastEvent' # lastEvent \/ ctx_served' # ctx_served) =>
             IF HasMarker(lastEvent') /\ Origin(lastEvent') = INTERNAL
             THEN /\ ctx_res_port'
                        = Append(ctx_res_port,
                                 WithOrigin(lastEvent', SERVER))
                  /\ Len(ctx_served') = Len(ctx_served) + 1
                  /\ ctx_served'[Len(ctx_served')].frame
                        = WithOrigin(lastEvent', SERVER)
             ELSE /\ ctx_res_port' = ctx_res_port
                  /\ ctx_served' = ctx_served]_vars

\* The response script has forwarded the EVAL response of client 1 and
\* fl_eval has returned its value, 2.
C25_Witness ==
    /\ lastEvent = res_eval(1, OK, PickleInt(2))
    /\ ctx_served # <<>>
    /\ ctx_served[Len(ctx_served)].frame
          = WithOrigin(res_eval(1, OK, PickleInt(2)), SERVER)
    /\ CallReturned
    /\ ctx_value = [value |-> 2]

\* Events of the origins CLIENT and SERVER and without the marker have
\* arrived and nothing was forwarded.
C25_NothingForwarded ==
    /\ lastEvent = WithOrigin(res_eval(1, OK, PickleInt(1)), CLIENT)
    /\ ctx_served = <<>>
    /\ ctx_execs > 0

(***************************************************************************)
(* Closing a client.  Process A (FlapiBaseClient) is connected as client 1 *)
(* and the context based client as client 2; each calls close() or         *)
(* disable(), and the host answers a goodbye when it gets to it, or not    *)
(* before the client's wait has ended.                                     *)
(***************************************************************************)
\* close(): goodbye() when the client is connected, then the reference to
\* the comms is dropped.  The goodbye is awaited in BcReceive or
\* BcGoodbyeTimeout; the exception that leaves goodbye leaves close.
BcClose(p) ==
    /\ bc_pc[p] = "ready"
    /\ bc_ops < MaxOps
    /\ bc_ops' = bc_ops + 1
    /\ BcBegin(p, "close")
    /\ bc_raised' = [bc_raised EXCEPT ![p] = None]
    /\ IF bc_client_id[p] = NoId
       THEN UNCHANGED <<bc_pc, req_port>>
       ELSE /\ bc_pc' = [bc_pc EXCEPT ![p] = "goodbye"]
            /\ req_port' = Append(req_port,
                              send_message(bc_client_id[p], CLIENT_GOODBYE,
                                           b64encode(FormatInt(0))))
    /\ UNCHANGED <<bc_client_id, bc_tried, bc_res_port, bc_stdout,
                   bc_arrived, helloVars>>

\* self.__comms after the last operation of process p: None once close()
\* has run to its end, the FlapiComms object otherwise.
bc_comms(p) ==
    IF bc_last[p] = "close" /\ bc_pc[p] = "ready" /\ bc_raised[p] = None
    THEN None ELSE "FlapiComms"

\* disable(code): client_goodbye sends the request.
CtxDisable(code) ==
    /\ vcState = "ready"
    /\ ctx_execs < MaxCtxExecs
    /\ ctx_client_id # NoId
    /\ vcState' = "goodbye"
    /\ execRaised' = None
    /\ ctx_execs' = ctx_execs + 1
    /\ req_port' = Append(req_port,
                          ClientRequest(ctx_client_id, CLIENT_GOODBYE,
                                        b64encode(FormatInt(code))))
    /\ ctx_sent' = Append(ctx_sent,
                          ClientRequest(ctx_client_id, CLIENT_GOODBYE,
                                        b64encode(FormatInt(code))))
    /\ UNCHANGED <<client_version, ctx_client_id, ctx_res_port, vcRaised,
                   ctx_log, ctx_served, ctx_value>>

\* client_goodbye: receive_message, one message.  FlapiClientExit is what
\* it waits for: disable goes on, pops the context and closes the ports.
\* A response returned instead fails the assertion.
CtxDisablePoll ==
    /\ vcState = "goodbye"
    /\ ctx_res_port # <<>>
    /\ ctx_log' = Append(ctx_log,
                         CtxLogEntry(SliceToLast(Head(ctx_res_port), 1),
                                     ctx_client_id))
    /\ LET got == handle_received_message(
                      SliceToLast(Head(ctx_res_port), 1), ctx_client_id)
       IN  IF got.kind = "enquiry"
           THEN /\ req_port' = Append(req_port,
                                      MidoSysex(DEVICE_ENQUIRY_RESPONSE))
                /\ ctx_res_port' = Tail(ctx_res_port)
                /\ UNCHANGED <<vcState, execRaised, ctx_client_id>>
           ELSE /\ UNCHANGED req_port
                /\ IF got.kind = "None"
                   THEN /\ ctx_res_port' = Tail(ctx_res_port)
                        /\ UNCHANGED <<vcState, execRaised, ctx_client_id>>
                   ELSE IF got.kind = "raise"
                           /\ got.error = "FlapiClientExit"
                   THEN /\ vcState' = "disabled"
                        /\ ctx_client_id' = NoId
                        /\ ctx_res_port' = <<>>
                        /\ execRaised' = None
                   ELSE /\ vcState' = "ready"
                        /\ ctx_res_port' = Tail(ctx_res_port)
                        /\ execRaised' = IF got.kind = "raise"
                                         THEN got.error
                                         ELSE "AssertionError"
                        /\ UNCHANGED ctx_client_id
    /\ UNCHANGED <<client_version, vcRaised, ctx_sent, ctx_served,
                   ctx_execs, ctx_value>>

\* client_goodbye: nothing arrived within TIMEOUT_DURATION;
\* FlapiTimeoutError leaves client_goodbye and disable.
CtxDisableTimeout ==
    /\ vcState = "goodbye"
    /\ ctx_res_port = <<>>
    /\ vcState' = "ready"
    /\ execRaised' = "FlapiTimeoutError"
    /\ UNCHANGED <<client_version, ctx_client_id, ctx_res_port, req_port,
                   vcRaised, ctx_sent, ctx_log, ctx_served, ctx_execs,
                   ctx_value>>

\* The request script handles a request; the response script passes its
\* frames on to every open response port.
CloseServe ==
    /\ req_port # <<>>
    /\ OnSysEx(Head(req_port))
    /\ req_port' = Tail(req_port)
    /\ bc_res_port' = [p \in Procs |->
                          IF bc_pc[p] = "exited" THEN bc_res_port[p]
                          ELSE bc_res_port[p] \o Forwarded(dispatched')]
    /\ ctx_res_port' = IF vcState = "disabled" THEN ctx_res_port
                       ELSE ctx_res_port \o Forwarded(dispatched')
    /\ UNCHANGED <<bc_client_id, bc_pc, bc_tried, bc_last, bc_raised,
                   bc_ops, bc_detail, bc_stdout, bc_seen, bc_timer,
                   bc_waited, bc_arrived, helloVars>>
    /\ UNCHANGED <<client_version, ctx_client_id, vcState, vcRaised,
                   ctx_sent, ctx_log, ctx_served, ctx_execs, execRaised,
                   ctx_value>>

\* Process A is connected as client 1 with two operations of its budget
\* left, the context based client as client 2.
CloseInit ==
    /\ CodecInit /\ CommsInit /\ CapoutInit
    /\ connected_clients = [c \in ClientIds |-> make_client_globals(c)]
    /\ solo = connected_clients
    /\ dispatched = <<>>
    /\ serverErr = None
    /\ lastEvent = <<>>
    /\ before = EmptyDict
    /\ server_version = VERSION
    /\ req_port = <<>>
    /\ client_version = VERSION
    /\ ctx_client_id = 2
    /\ ctx_res_port = <<>>
    /\ vcState = "ready"
    /\ vcRaised = None
    /\ ctx_sent = <<>>
    /\ ctx_log = <<>>
    /\ ctx_served = <<>>
    /\ ctx_execs = 0
    /\ execRaised = None
    /\ ctx_value = NoCall
    /\ bc_client_id = [p \in Procs |-> IF p = "A" THEN 1 ELSE NoId]
    /\ bc_pc = [p \in Procs |-> IF p = "A" THEN "ready" ELSE "exited"]
    /\ bc_tried = [p \in Procs |-> IF p = "A" THEN {1} ELSE {}]
    /\ bc_last = [p \in Procs |-> IF p = "A" THEN "hello" ELSE "none"]
    /\ bc_raised = [p \in Procs |-> None]
    /\ bc_res_port = [p \in Procs |-> <<>>]
    /\ bc_ops = MaxOps - 2
    /\ bc_detail = [p \in Procs |-> <<>>]
    /\ bc_stdout = [p \in Procs |-> <<>>]
    /\ bc_seen = [p \in Procs |-> NoCall]
    /\ bc_timer = [p \in Procs |-> 0]
    /\ bc_waited = [p \in Procs |-> 0]
    /\ bc_arrived = 0
    /\ bc_timeout = [p \in Procs |-> 0]
    /\ bc_elapsed = [p \in Procs |-> 0]
    /\ bc_passes = [p \in Procs |-> <<>>]

CloseNext ==
    \/ \E p \in Procs :
          BcClose(p) /\ UNCHANGED <<codecVars, commsVars, serverVars,
                                    ctxVars>>
    \/ \E p \in Procs :
          BcReceive(p) /\ UNCHANGED <<codecVars, commsVars, serverVars,
                                      ctxVars>>
    \/ \E p \in Procs :
          BcGoodbyeTimeout(p) /\ UNCHANGED <<codecVars, commsVars,
                                             serverVars, ctxVars>>
    \/ \E code \in ExitCodes :
          CtxDisable(code) /\ UNCHANGED <<codecVars, commsVars, serverVars,
                                          bcVars>>
    \/ CtxDisablePoll /\ UNCHANGED <<codecVars, commsVars, serverVars,
                                      bcVars>>
    \/ CtxDisableTimeout /\ UNCHANGED <<codecVars, commsVars, serverVars,
                                         bcVars>>
    \/ CloseServe /\ UNCHANGED <<codecVars, commsVars>>

SpecClose == CloseInit /\ [][CloseNext]_vars

\* close() of process p has ended: it returned or an exception left it.
CloseEnded(p) == bc_last[p] = "close" /\ bc_pc[p] # "goodbye"

\* disable() has ended: it returned or an exception left it.
DisableEnded ==
    /\ vcState \in {"ready", "disabled"}
    /\ ctx_sent # <<>>
    /\ EventType(ctx_sent[Len(ctx_sent)]) = CLIENT_GOODBYE

\* C26: when close() of a FlapiBaseClient has ended the client holds no
\* client id and its comms are dropped, and when disable() has ended the
\* context is popped, whether or not the server confirmed the goodbye.
C26_CloseDisconnects ==
    /\ \A p \in Procs :
          CloseEnded(p) => /\ bc_client_id[p] = NoId
                           /\ bc_comms(p) = None
    /\ DisableEnded => /\ vcState = "disabled"
                       /\ ctx_client_id = NoId

(***************************************************************************)
(* FlapiComms.send_message on its own: the client sends hello,             *)
(* version_query and exec messages, each through FlapiMsg.to_bytes, one    *)
(* sysex message on the request port per buffer.                           *)
(***************************************************************************)
\* FlapiComms.send_message(client_id, message_type, status,
\* additional_data): the sysex messages put on the request port.
FlapiComms_send_message(client_id, message_type, status, additional_data) ==
    LET msg == FlapiMsgNew(CLIENT, client_id, message_type, status,
                           additional_data)
    IN  [i \in 1..Len(to_bytes(msg)) |-> MidoSysex(to_bytes(msg)[i])]

\* What the client sends: hello and version_query carry no additional
\* data, exec carries the base64 text of its code.
SendCalls ==
    { [message_type |-> t, additional_data |-> <<>>] :
        t \in {CLIENT_HELLO, VERSION_QUERY} }
    \cup { [message_type |-> EXEC, additional_data |-> b64encode(src)] :
             src \in { <<120>>, <<120, 61, 49>> } }

\* One call of send_message for client c.
CommsSend(c, call) ==
    /\ bc_ops < MaxOps
    /\ bc_ops' = bc_ops + 1
    /\ frame' = FlapiMsgNew(CLIENT, c, call.message_type, OK,
                            call.additional_data)
    /\ msgs' = to_bytes(frame')
    /\ req_port' = req_port
                    \o FlapiComms_send_message(c, call.message_type, OK,
                                               call.additional_data)
    /\ wire' = FlapiComms_send_message(c, call.message_type, OK,
                                        call.additional_data)
    /\ UNCHANGED <<pending, assembled, codecErr>>
    /\ UNCHANGED <<bc_client_id, bc_pc, bc_tried, bc_last, bc_raised,
                   bc_res_port, bc_detail, bc_stdout, bc_seen, bc_timer,
                   bc_waited, bc_arrived, helloVars>>
    /\ UNCHANGED serverVars

SendInit == Init

SendNext ==
    \E c \in ClientIds, call \in SendCalls :
        CommsSend(c, call) /\ UNCHANGED <<commsVars, ctxVars>>

SpecSend == SendInit /\ [][SendNext]_vars

\* The sysex messages the last call of send_message put on the request
\* port: the last ones there.
LastSent == SubSeq(req_port, Len(req_port) - Len(wire) + 1, Len(req_port))

\* C29: every call of send_message puts at least one sysex message on the
\* request port, and a call without additional data, as hello and
\* version_query make it, puts exactly one there, which carries the client
\* id and the message type of the call.
C29_SendEmitsOne ==
    frame # NoMsg =>
        /\ Len(LastSent) >= 1
        /\ frame.additional_data = <<>> =>
              /\ Len(LastSent) = 1
              /\ BufClientId(SliceToLast(LastSent[1], 1)) = frame.client_id
              /\ BufMsgType(SliceToLast(LastSent[1], 1)) = frame.msg_type

(***************************************************************************)
(* Two calls in a row.  Process A is connected as client 1 and calls exec  *)
(* twice; the host handles a request when it gets to it, which may be      *)
(* after the window of receive_message has passed.  Nothing else is on     *)
(* the ports.                                                              *)
(***************************************************************************)
\* A is connected as client 1, its scope binds x, and it has two operations
\* of its budget left.
LateInit ==
    /\ CodecInit /\ CommsInit /\ CtxInit /\ CapoutInit
    /\ connected_clients =
          DictPut(EmptyDict, 1, DictPut(make_client_globals(1), 120, 1))
    /\ solo = connected_clients
    /\ dispatched = <<>>
    /\ serverErr = None
    /\ lastEvent = <<>>
    /\ before = EmptyDict
    /\ server_version = VERSION
    /\ req_port = <<>>
    /\ bc_client_id = [p \in Procs |-> IF p = "A" THEN 1 ELSE NoId]
    /\ bc_pc = [p \in Procs |-> IF p = "A" THEN "ready" ELSE "exited"]
    /\ bc_tried = [p \in Procs |-> IF p = "A" THEN {1} ELSE {}]
    /\ bc_last = [p \in Procs |-> IF p = "A" THEN "hello" ELSE "none"]
    /\ bc_raised = [p \in Procs |-> None]
    /\ bc_res_port = [p \in Procs |-> <<>>]
    /\ bc_ops = MaxOps - 2
    /\ bc_detail = [p \in Procs |-> <<>>]
    /\ bc_stdout = [p \in Procs |-> <<>>]
    /\ bc_seen = [p \in Procs |-> NoCall]
    /\ bc_timer = [p \in Procs |-> 0]
    /\ bc_waited = [p \in Procs |-> 0]
    /\ bc_arrived = 0
    /\ bc_timeout = [p \in Procs |-> 0]
    /\ bc_elapsed = [p \in Procs |-> 0]
    /\ bc_passes = [p \in Procs |-> <<>>]

LateNext ==
    \/ \E p \in Procs, code \in AppSources :
          BcExec(p, code) /\ UNCHANGED <<codecVars, commsVars, serverVars,
                                         ctxVars>>
    \/ \E p \in Procs :
          BcVersionQuery(p) /\ UNCHANGED <<codecVars, commsVars,
                                           serverVars, ctxVars>>
    \/ \E p \in Procs :
          BcReceive(p) /\ UNCHANGED <<codecVars, commsVars, serverVars,
                                      ctxVars>>
    \/ \E p \in Procs :
          BcTick(p) /\ UNCHANGED <<codecVars, commsVars, serverVars,
                                   ctxVars>>
    \/ \E p \in Procs :
          BcTimeout(p) /\ UNCHANGED <<codecVars, commsVars, serverVars,
                                      ctxVars>>
    \/ SessionServe /\ UNCHANGED <<codecVars, commsVars, ctxVars>>

SpecLate == LateInit /\ [][LateNext]_vars

\* The last call of process p has ended on a frame the dispatcher returned
\* to it as the response.
EndedOnResponse(p) ==
    /\ bc_pc[p] = "ready"
    /\ bc_last[p] \in {"exec", "version_query"}
    /\ bc_seen[p] # NoCall
    /\ bc_seen[p].kind = "return"

\* C30: the response on which a call ends is the one the server produced
\* for the request of that call: the request has been handled, it is the
\* last the server handled, and the frame returned is among those the
\* server sent for it.  A response to an earlier request that timed out is
\* never taken for it.
C30_ResponseIsOwn ==
    \A p \in Procs :
        EndedOnResponse(p) =>
            /\ req_port = <<>>
            /\ \E i \in DOMAIN Forwarded(dispatched) :
                  Forwarded(dispatched)[i] = bc_seen[p].raw

(***************************************************************************)
(* try_init of the context based client, called again and again on one     *)
(* context as wait_for_connection does: hello, then setup_server with its  *)
(* version check and its import.  No client is connected at first; the     *)
(* request script is of the client's version or of a newer one and gets to *)
(* a request at any time, also after the client has given up waiting.      *)
(***************************************************************************)
\* CLIENT_HELLO frames one context sends during one behaviour.
MaxTryInits == 2

\* poll_for_message: messages are taken from the response port until one is
\* a response or raises, or until the port is empty.  Yields the port left,
\* how the call ended, the number of messages taken and what was sent.
RECURSIVE poll_for_message(_, _)
poll_for_message(port, client_id) ==
    IF port = <<>>
    THEN [port |-> <<>>, kind |-> "None", error |-> None, taken |-> 0,
          sent |-> <<>>]
    ELSE LET got == handle_received_message(SliceToLast(Head(port), 1),
                                            client_id)
             more == poll_for_message(Tail(port), client_id)
         IN  IF got.kind \in {"None", "enquiry"}
             THEN [more EXCEPT
                      !.taken = @ + 1,
                      !.sent = (IF got.kind = "enquiry"
                                THEN <<MidoSysex(DEVICE_ENQUIRY_RESPONSE)>>
                                ELSE <<>>) \o @]
             ELSE [port |-> Tail(port), kind |-> got.kind,
                   error |-> got.error, taken |-> 1, sent |-> <<>>]

\* try_init is not running and its last call, if any, did not return True.
TryInitCallable ==
    \/ vcState = "idle"
    \/ vcState = "done" /\ vcRaised # None
    \/ vcState = "ready" /\ execRaised # None

\* The CLIENT_HELLO frames the context has sent.
HellosSent == SelectSeq(ctx_sent, LAMBDA f : EventType(f) = CLIENT_HELLO)

\* try_init(client_id) up to the request of hello(): the entry assertion,
\* the assignment of the id, poll_for_message, and the CLIENT_HELLO frame.
try_init(client_id) ==
    /\ TryInitCallable
    /\ Len(HellosSent) < MaxTryInits
    /\ IF ctx_client_id # NoId
       THEN /\ vcState' = "done"
            /\ vcRaised' = "AssertionError"
            /\ UNCHANGED <<ctx_client_id, ctx_res_port, req_port, ctx_sent,
                           ctx_log, execRaised>>
       ELSE LET polled == poll_for_message(ctx_res_port, client_id)
                request == ClientRequest(client_id, CLIENT_HELLO, <<>>)
            IN  /\ ctx_client_id' = client_id
                /\ ctx_res_port' = polled.port
                /\ ctx_log' = ctx_log
                       \o [i \in 1..polled.taken |->
                              CtxLogEntry(SliceToLast(ctx_res_port[i], 1),
                                          client_id)]
                /\ execRaised' = None
                /\ IF polled.kind = "raise"
                   THEN /\ vcState' = "done"
                        /\ vcRaised' = polled.error
                        /\ req_port' = req_port \o polled.sent
                        /\ UNCHANGED ctx_sent
                   ELSE /\ vcState' = "hello"
                        /\ vcRaised' = None
                        /\ req_port' = (req_port \o polled.sent)
                                       \o <<request>>
                        /\ ctx_sent' = Append(ctx_sent, request)
    /\ UNCHANGED <<client_version, ctx_served, ctx_execs, ctx_value>>

\* hello(): receive_message / poll_for_message, one message.  A response
\* that is in order makes hello return True: try_init goes on to
\* setup_server, whose version_check sends the version query.  An exception
\* other than the timeout leaves hello and try_init.
CtxHelloPoll ==
    /\ vcState = "hello"
    /\ ctx_res_port # <<>>
    /\ ctx_res_port' = Tail(ctx_res_port)
    /\ ctx_log' = Append(ctx_log,
                         CtxLogEntry(SliceToLast(Head(ctx_res_port), 1),
                                     ctx_client_id))
    /\ LET got == handle_received_message(
                      SliceToLast(Head(ctx_res_port), 1), ctx_client_id)
           query == ClientRequest(ctx_client_id, VERSION_QUERY, <<>>)
       IN  IF got.kind = "enquiry"
           THEN /\ req_port' = Append(req_port,
                                      MidoSysex(DEVICE_ENQUIRY_RESPONSE))
                /\ UNCHANGED <<vcState, vcRaised, ctx_sent>>
           ELSE IF got.kind = "None"
           THEN UNCHANGED <<vcState, vcRaised, ctx_sent, req_port>>
           ELSE IF got.kind = "raise"
           THEN /\ vcState' = "done"
                /\ vcRaised' = got.error
                /\ UNCHANGED <<ctx_sent, req_port>>
           ELSE IF assert_response_is_ok(got.value, CLIENT_HELLO) # None
           THEN /\ vcState' = "done"
                /\ vcRaised' = assert_response_is_ok(got.value,
                                                     CLIENT_HELLO)
                /\ UNCHANGED <<ctx_sent, req_port>>
           ELSE /\ vcState' = "waiting"
                /\ vcRaised' = None
                /\ req_port' = Append(req_port, query)
                /\ ctx_sent' = Append(ctx_sent, query)
    /\ UNCHANGED <<client_version, ctx_client_id, ctx_served, ctx_execs,
                   execRaised, ctx_value>>

\* hello(): nothing arrived within TIMEOUT_DURATION; hello returns False
\* and try_init takes the id back and returns False.
CtxHelloTimeout ==
    /\ vcState = "hello"
    /\ ctx_res_port = <<>>
    /\ vcState' = "idle"
    /\ ctx_client_id' = NoId
    /\ UNCHANGED <<client_version, ctx_res_port, req_port, vcRaised,
                   ctx_sent, ctx_log, ctx_served, ctx_execs, execRaised,
                   ctx_value>>

\* A context that has just been registered: it holds no client id, and the
\* request script has no session.
TryInitInit ==
    /\ CodecInit /\ CommsInit /\ BcInit /\ CapoutInit
    /\ connected_clients = EmptyDict
    /\ solo = connected_clients
    /\ dispatched = <<>>
    /\ serverErr = None
    /\ lastEvent = <<>>
    /\ before = EmptyDict
    /\ server_version \in ServerVersions
    /\ req_port = <<>>
    /\ client_version = VERSION
    /\ ctx_client_id = NoId
    /\ ctx_res_port = <<>>
    /\ vcState = "idle"
    /\ vcRaised = None
    /\ ctx_sent = <<>>
    /\ ctx_log = <<>>
    /\ ctx_served = <<>>
    /\ ctx_execs = 0
    /\ execRaised = None
    /\ ctx_value = NoCall

TryInitNext ==
    \/ \E c \in ClientIds :
          try_init(c) /\ UNCHANGED <<codecVars, commsVars, serverVars,
                                     bcVars>>
    \/ CtxHelloPoll /\ UNCHANGED <<codecVars, commsVars, serverVars, bcVars>>
    \/ CtxHelloTimeout /\ UNCHANGED <<codecVars, commsVars, serverVars,
                                       bcVars>>
    \/ VcServe /\ UNCHANGED <<codecVars, commsVars, bcVars>>
    \/ VcPoll /\ UNCHANGED <<codecVars, commsVars, serverVars, bcVars>>
    \/ VcTimeout /\ UNCHANGED <<codecVars, commsVars, serverVars, bcVars>>
    \/ CtxExec(ImportSource) /\ UNCHANGED <<codecVars, commsVars,
                                            serverVars, bcVars>>
    \/ CtxExecPoll /\ UNCHANGED <<codecVars, commsVars, serverVars, bcVars>>
    \/ CtxExecTimeout /\ UNCHANGED <<codecVars, commsVars, serverVars,
                                      bcVars>>

SpecTryInit == TryInitInit /\ [][TryInitNext]_vars

\* C36: however try_init is called again on one context, its entry
\* assertion does not fail after a call that did not succeed: when the last
\* call returned False or raised, the context holds no client id; when it
\* returned True, the context holds the id of its last hello.
C36_TryInitRetryable ==
    /\ vcRaised # "AssertionError"
    /\ TryInitCallable => ctx_client_id = NoId
    /\ (vcState = "ready" /\ execRaised = None) =>
          ctx_client_id = EventClientId(HellosSent[Len(HellosSent)])

(***************************************************************************)
(* A session that ends and an id that is claimed again.  Client 1 has a    *)
(* session in which it has run x=1.  Requests of clients 1 and 2 reach the *)
(* request script one after the other: hello, goodbye, x=2, print(x) and   *)
(* the evaluation of x, and client 2 may write x into the scope of client  *)
(* 1.  ctx_sent keeps the requests in their order.                         *)
(***************************************************************************)
\* Requests sent during one behaviour.
MaxRequests == 3

RehelloEvents ==
    UNION { { ClientRequest(c, CLIENT_HELLO, <<>>),
              ClientRequest(c, CLIENT_GOODBYE, b64encode(<<48>>)),
              ClientRequest(c, EXEC, b64encode(<<120, 61, 50>>)),
              ClientRequest(c, EXEC,
                  b64encode(<<112, 114, 105, 110, 116, 40, 120, 41>>)),
              ClientRequest(c, EVAL, b64encode(<<120>>)) } :
            c \in ClientIds }
    \cup { \* client 2 runs connected_clients[1]['x']=2
           ClientRequest(2, EXEC,
               b64encode(<<99, 111, 110, 110, 101, 99, 116, 101, 100, 95,
                           99, 108, 105, 101, 110, 116, 115, 91, 49, 93, 91,
                           39, 120, 39, 93, 61, 50>>)) }

\* A client sends a request and the request script handles it.
RehelloServe(event) ==
    /\ Len(ctx_sent) < MaxRequests
    /\ ctx_sent' = Append(ctx_sent, event)
    /\ OnSysEx(event)
    /\ UNCHANGED <<client_version, ctx_client_id, ctx_res_port, vcState,
                   vcRaised, ctx_log, ctx_served, ctx_execs, execRaised,
                   ctx_value>>

\* Client 1 has said hello and has run x=1.
RehelloInit ==
    /\ CodecInit /\ CommsInit /\ CtxInit /\ BcInit /\ CapoutInit
    /\ connected_clients =
          DictPut(EmptyDict, 1, DictPut(make_client_globals(1), 120, 1))
    /\ solo = connected_clients
    /\ dispatched = <<>>
    /\ serverErr = None
    /\ lastEvent = <<>>
    /\ before = EmptyDict
    /\ server_version = VERSION
    /\ req_port = <<>>

RehelloNext ==
    \E e \in RehelloEvents : RehelloServe(e)
        /\ UNCHANGED <<codecVars, commsVars, req_port, bcVars>>

SpecRehello == RehelloInit /\ [][RehelloNext]_vars

\* Client c has said goodbye and, later, hello again.
SaidHelloAgain(c) ==
    \E i, j \in DOMAIN ctx_sent :
        /\ i < j
        /\ ctx_sent[i] = ClientRequest(c, CLIENT_GOODBYE, b64encode(<<48>>))
        /\ ctx_sent[j] = ClientRequest(c, CLIENT_HELLO, <<>>)

\* The last request was client 1 reading x: print(x) or the evaluation of x.
ReadsX ==
    \/ lastEvent = ClientRequest(1, EVAL, b64encode(<<120>>))
    \/ lastEvent = ClientRequest(1, EXEC,
                       b64encode(<<112, 114, 105, 110, 116, 40, 120, 41>>))

\* C37: once client 1 has said goodbye and hello again, the x=1 of its
\* first session is gone: reading x never yields 1, and the hello that
\* claims the id again is accepted with a scope that binds nothing.
C37_RehelloFresh ==
    /\ (SaidHelloAgain(1) /\ ReadsX) =>
          /\ \A i \in DOMAIN dispatched :
                dispatched[i] # res_eval(1, OK, PickleInt(1))
          /\ DispatchedText # <<49, 10>>
    /\ (SaidHelloAgain(1) /\ HelloEvent /\ EventClientId(lastEvent) = 1
        /\ 1 \notin DOMAIN before) =>
          /\ connected_clients[1] = EmptyDict
          /\ Len(DispatchedOfType(CLIENT_HELLO)) = 1

\* Client 1 has said goodbye and hello again and evaluates x in its new
\* session: the answer is the NameError.
C37_Witness ==
    /\ SaidHelloAgain(1)
    /\ lastEvent = ClientRequest(1, EVAL, b64encode(<<120>>))
    /\ 1 \in DOMAIN before
    /\ before[1] = EmptyDict
    /\ dispatched[Len(dispatched)]
          = res_eval(1, ERR, PickleException("NameError"))

====
